---- MODULE Spec2Model ----
(***************************************************************************)
(* SharedDirectory / SubDirectory (packages/runtime/map/src/directory.ts)  *)
(* and SharedMap snapshot/restore (map.ts), as state machines.             *)
(*                                                                         *)
(* Directory part: two replicas of one SharedDirectory, connected to an    *)
(* ordering service that appends every submitted operation to one totally  *)
(* ordered log.  Each replica applies its own operations optimistically    *)
(* and later processes the log in order (its own messages with local =     *)
(* TRUE).  Path strings are modelled by their components: "/" is << >>,    *)
(* "/a/b" is <<"a", "b">>.                                                 *)
(***************************************************************************)
EXTENDS Integers, Sequences, FiniteSets, TLC

VARIABLES
    nodes,      \* nodes[r]: tree position -> SubDirectory fields of replica r
    clientSeq,  \* clientSeq[r]: last client-sequence-number assigned to r
    connected,  \* connected[r]: submitLocalMessage assigns a number
    unsent,     \* unsent[r]: operations submitted while not connected
    log,        \* the ordering service's sequenced messages
    delivered,  \* delivered[r]: how many log messages r has processed
    waiters,    \* waiters[r]: the promises wait() returned at replica r
    mapData,    \* SharedMap: kernel.getSerializedStorage(), as a sequence
    snap,       \* SharedMap: the running state of snapshot() / loadCore()
    loaded      \* SharedMap: the kernel populated by loadCore()

dirVars == <<nodes, clientSeq, connected, unsent, log, delivered, waiters>>
mapVars == <<mapData, snap, loaded>>
vars == <<nodes, clientSeq, connected, unsent, log, delivered, waiters,
          mapData, snap, loaded>>

-----------------------------------------------------------------------------
(* Bounds of the model *)

Replicas == {1, 2}
Keys == {"k"}
Names == {"a"}
\* tree positions the local operations may create
Positions == {<< >>, <<"a">>}
\* set(key, value, type) inputs of replica r: a plain value that names the
\* writer, and a value-type value (a counter starting at 0)
SetInputs(r) == {<<r, "Plain">>, <<0, "Counter">>}
\* plain values of the key-only specification
PlainValues == {1, 2}
\* the log holds at most MaxOps sequenced messages
MaxOps == 2
\* the log of the key-only specification holds at most MaxKeyOps messages
MaxKeyOps == 4
\* a counter is incremented locally only below MaxCounter
MaxCounter == 1

-----------------------------------------------------------------------------
(* Values *)

NoSeq == -1
NoKey == ""
NoName == ""
sep == << >>

\* what Map.get returns for a key that was stored as undefined
Undefined == [kind |-> "undefined", type |-> "", value |-> 0]
NoValue == [type |-> "", value |-> 0]

IsValueType(lv) == lv.kind = "ValueTypeLocalValue"

\* LocalValueMaker.fromInMemory / makeValueType
fromInMemory(v) == [kind |-> "PlainLocalValue", type |-> "Plain", value |-> v]
makeValueType(type, params) ==
    [kind |-> "ValueTypeLocalValue", type |-> type, value |-> params]

\* ILocalValue.makeSerializable
makeSerializable(lv) == [type |-> lv.type, value |-> lv.value]

\* LocalValueMaker.fromSerializable
fromSerializable(s) ==
    IF s.type = "Plain" \/ s.type = "Shared"
    THEN [kind |-> "PlainLocalValue", type |-> s.type, value |-> s.value]
    ELSE [kind |-> "ValueTypeLocalValue", type |-> s.type, value |-> s.value]

\* SharedDirectory.makeLocal
makeLocal(key, path, serializable) == fromSerializable(serializable)

-----------------------------------------------------------------------------
(* Paths *)

IsPrefix(a, b) == Len(a) <= Len(b) /\ SubSeq(b, 1, Len(a)) = a

RECURSIVE normalizeParts(_, _)
\* posix normalisation of an absolute path's components: "" and "." are
\* dropped, ".." removes the component before it (and nothing at the root)
normalizeParts(done, rest) ==
    IF rest = << >> THEN done
    ELSE LET c == Head(rest) IN
         IF c = "" \/ c = "." THEN normalizeParts(done, Tail(rest))
         ELSE IF c = ".."
              THEN normalizeParts(IF done = << >> THEN done
                                  ELSE SubSeq(done, 1, Len(done) - 1),
                                  Tail(rest))
              ELSE normalizeParts(Append(done, c), Tail(rest))

\* posix.join(absolutePath, subdirName)
posixJoin(absolutePath, subdirName) ==
    normalizeParts(<< >>, Append(absolutePath, subdirName))

\* SharedDirectory.makeAbsolute: posix.resolve(posix.sep, path), path absolute
makeAbsolute(path) == normalizeParts(<< >>, path)

NoNode == <<"<undefined>">>

RECURSIVE getSubDirectories(_, _, _)
\* the loop of SharedDirectory.getWorkingDirectory: getSubDirectory for one
\* component after the other, undefined at the first missing child
getSubDirectories(tree, currentSubDir, subdirs) ==
    IF subdirs = << >> THEN currentSubDir
    ELSE LET child == Append(currentSubDir, Head(subdirs)) IN
         IF child \notin DOMAIN tree THEN NoNode
         ELSE getSubDirectories(tree, child, Tail(subdirs))

\* SharedDirectory.getWorkingDirectory for the absolute path with the given
\* components: the tree position the path leads to
getWorkingDirectory(tree, path) ==
    LET absolutePath == makeAbsolute(path) IN
    IF absolutePath = sep THEN << >>
    ELSE getSubDirectories(tree, << >>, absolutePath)

\* a path as a caller writes it: whether it starts with posix.sep, and the
\* components between the separators
PathString(absolute, parts) == [absolute |-> absolute, parts |-> parts]

\* posix.resolve(from, to), from being an absolute path
posixResolve(from, to) ==
    IF to.absolute THEN normalizeParts(<< >>, to.parts)
    ELSE normalizeParts(<< >>, from \o to.parts)

\* getWorkingDirectory that walks the components as written, unresolved
SharedDirectory_getWorkingDirectoryUnresolved(tree, path) ==
    IF path.parts = << >> THEN << >>
    ELSE getSubDirectories(tree, << >>, path.parts)

\* SharedDirectory.getWorkingDirectory(path) for any path string
SharedDirectory_getWorkingDirectory(tree, path) ==
    LET absolutePath == posixResolve(sep, path) IN
    IF absolutePath = sep THEN << >>
    ELSE getSubDirectories(tree, << >>, absolutePath)

\* getWorkingDirectory of a node that resolves against the root instead of
\* the node's own path
SubDirectory_getWorkingDirectoryFromRoot(tree, p, path) ==
    SharedDirectory_getWorkingDirectory(tree, path)

\* SubDirectory.getWorkingDirectory(path) on the node at position p
SubDirectory_getWorkingDirectory(tree, p, path) ==
    SharedDirectory_getWorkingDirectory(tree,
        PathString(TRUE, posixResolve(tree[p].absolutePath, path)))

-----------------------------------------------------------------------------
(* SubDirectory *)

Empty == [x \in {} |-> 0]

\* new SubDirectory(directory, runtime, absolutePath)
SubDirectory(absolutePath) ==
    [absolutePath |-> absolutePath,
     storage |-> Empty,
     pendingKeys |-> Empty,
     pendingSubDirectories |-> Empty,
     pendingClearClientSequenceNumber |-> NoSeq]

Without(f, x) == [y \in DOMAIN f \ {x} |-> f[y]]
With(f, x, v) == [y \in DOMAIN f \cup {x} |-> IF y = x THEN v ELSE f[y]]

\* SubDirectory.has
has(node, key) == key \in DOMAIN node.storage

\* SubDirectory.get dereferences the stored local value: it raises when the
\* key is present with an undefined local value
getThrows(node, key) == has(node, key) /\ node.storage[key] = Undefined

\* SubDirectory.get
get(node, key) == IF ~has(node, key) THEN Undefined ELSE node.storage[key]

valueChanged(key, path, previousValue, local) ==
    [event |-> "valueChanged", key |-> key, hasPath |-> TRUE, path |-> path,
     previousValue |-> previousValue, local |-> local]
valueChangedNoPath(key, previousValue, local) ==
    [event |-> "valueChanged", key |-> key, hasPath |-> FALSE, path |-> sep,
     previousValue |-> previousValue, local |-> local]
clearEvent(local) ==
    [event |-> "clear", key |-> NoKey, hasPath |-> FALSE, path |-> sep,
     previousValue |-> Undefined, local |-> local]

\* the result of a handler on a tree: the new tree, the events it emitted,
\* whether it raised, and what it returned
Result(tree, events, threw, ret) ==
    [tree |-> tree, events |-> events, threw |-> threw, ret |-> ret]

\* SubDirectory.setCore
setCore(tree, p, key, value, local) ==
    IF getThrows(tree[p], key) THEN Result(tree, << >>, TRUE, FALSE)
    ELSE Result([tree EXCEPT ![p].storage = With(@, key, value)],
                <<valueChanged(key, tree[p].absolutePath, get(tree[p], key), local)>>,
                FALSE, TRUE)

\* deleteCore that emits valueChanged whether or not the key was removed
deleteCoreAlwaysEmits(tree, p, key, local) ==
    IF getThrows(tree[p], key) THEN Result(tree, << >>, TRUE, FALSE)
    ELSE Result([tree EXCEPT ![p].storage = Without(@, key)],
                <<valueChanged(key, tree[p].absolutePath, get(tree[p], key), local)>>,
                FALSE, has(tree[p], key))

\* SubDirectory.deleteCore
deleteCore(tree, p, key, local) ==
    IF getThrows(tree[p], key) THEN Result(tree, << >>, TRUE, FALSE)
    ELSE IF has(tree[p], key)
         THEN Result([tree EXCEPT ![p].storage = Without(@, key)],
                     <<valueChanged(key, tree[p].absolutePath, get(tree[p], key), local)>>,
                     FALSE, TRUE)
         ELSE Result(tree, << >>, FALSE, FALSE)

\* clearCore that also empties the storage of every node below
clearCoreSubtree(tree, p, local) ==
    Result([x \in DOMAIN tree |->
               IF IsPrefix(p, x) THEN [tree[x] EXCEPT !.storage = Empty] ELSE tree[x]],
           <<clearEvent(local)>>, FALSE, TRUE)

\* SubDirectory.clearCore
clearCore(tree, p, local) ==
    Result([tree EXCEPT ![p].storage = Empty], <<clearEvent(local)>>, FALSE, TRUE)

\* clearExceptPendingKeys that empties the storage, pending keys included
clearExceptPendingKeysAll(node) == [node EXCEPT !.storage = Empty]

\* SubDirectory.clearExceptPendingKeys: every pending key is copied with
\* whatever storage.get returns for it, undefined when the key is absent
clearExceptPendingKeys(node) ==
    [node EXCEPT !.storage =
        [key \in DOMAIN node.pendingKeys |->
            IF key \in DOMAIN node.storage THEN node.storage[key] ELSE Undefined]]

\* createSubDirectoryCore that installs a new child whether or not one exists
createSubDirectoryCoreReplaces(tree, p, subdirName) ==
    LET q == Append(p, subdirName) IN
    [x \in {y \in DOMAIN tree : ~IsPrefix(q, y)} \cup {q} |->
        IF x = q THEN SubDirectory(posixJoin(tree[p].absolutePath, subdirName))
        ELSE tree[x]]

\* SubDirectory.createSubDirectoryCore
createSubDirectoryCore(tree, p, subdirName) ==
    LET q == Append(p, subdirName) IN
    IF q \in DOMAIN tree THEN tree
    ELSE [x \in DOMAIN tree \cup {q} |->
            IF x = q THEN SubDirectory(posixJoin(tree[p].absolutePath, subdirName))
            ELSE tree[x]]

\* deleteSubDirectoryCore that unlinks the child and keeps what is below it
deleteSubDirectoryCoreChildOnly(tree, p, subdirName) ==
    [x \in DOMAIN tree \ {Append(p, subdirName)} |-> tree[x]]

\* SubDirectory.deleteSubDirectoryCore: the child and its subtree leave the tree
deleteSubDirectoryCore(tree, p, subdirName) ==
    LET q == Append(p, subdirName) IN
    [x \in {y \in DOMAIN tree : ~IsPrefix(q, y)} |-> tree[x]]

\* needProcessStorageOperations without the pending-key test for remote
\* messages: a remote operation on a key with a pending local change applies
needProcessStorageOperationsNoPendingKey(node, op, local, message) ==
    IF node.pendingClearClientSequenceNumber # NoSeq
    THEN [need |-> FALSE, node |-> node]
    ELSE IF op.key \in DOMAIN node.pendingKeys /\ local
         THEN [need |-> FALSE,
               node |-> IF node.pendingKeys[op.key] = message.clientSequenceNumber
                        THEN [node EXCEPT !.pendingKeys = Without(@, op.key)]
                        ELSE node]
         ELSE [need |-> ~local, node |-> node]

\* needProcessStorageOperations that erases the marker of any message with
\* the marker's number, the replica's own or not
needProcessStorageOperationsAnyClient(node, op, local, message) ==
    IF node.pendingClearClientSequenceNumber # NoSeq
    THEN [need |-> FALSE, node |-> node]
    ELSE IF op.key \in DOMAIN node.pendingKeys
         THEN [need |-> FALSE,
               node |-> IF node.pendingKeys[op.key] = message.clientSequenceNumber
                        THEN [node EXCEPT !.pendingKeys = Without(@, op.key)]
                        ELSE node]
         ELSE [need |-> ~local, node |-> node]

\* needProcessStorageOperations without the pending-clear test
needProcessStorageOperationsNoPendingClear(node, op, local, message) ==
    IF op.key \in DOMAIN node.pendingKeys
    THEN [need |-> FALSE,
          node |-> IF local /\ node.pendingKeys[op.key] = message.clientSequenceNumber
                   THEN [node EXCEPT !.pendingKeys = Without(@, op.key)]
                   ELSE node]
    ELSE [need |-> ~local, node |-> node]

\* SubDirectory.needProcessStorageOperations: whether to apply, and the node
\* with the pending key erased when the message is its echo
needProcessStorageOperations(node, op, local, message) ==
    IF node.pendingClearClientSequenceNumber # NoSeq
    THEN [need |-> FALSE, node |-> node]
    ELSE IF op.key \in DOMAIN node.pendingKeys
         THEN [need |-> FALSE,
               node |-> IF local /\ node.pendingKeys[op.key] = message.clientSequenceNumber
                        THEN [node EXCEPT !.pendingKeys = Without(@, op.key)]
                        ELSE node]
         ELSE [need |-> ~local, node |-> node]

\* needProcessSubDirectoryOperations that lets a remote message through
\* whether or not the name has a pending marker
needProcessSubDirectoryOperationsNoPending(node, op, local, message) ==
    [need |-> ~local,
     node |-> IF op.subdirName \in DOMAIN node.pendingSubDirectories /\ local
                   /\ node.pendingSubDirectories[op.subdirName]
                         = message.clientSequenceNumber
              THEN [node EXCEPT !.pendingSubDirectories = Without(@, op.subdirName)]
              ELSE node]

\* SubDirectory.needProcessSubDirectoryOperations
needProcessSubDirectoryOperations(node, op, local, message) ==
    IF op.subdirName \in DOMAIN node.pendingSubDirectories
    THEN [need |-> FALSE,
          node |-> IF local /\ node.pendingSubDirectories[op.subdirName]
                                    = message.clientSequenceNumber
                   THEN [node EXCEPT !.pendingSubDirectories = Without(@, op.subdirName)]
                   ELSE node]
    ELSE [need |-> ~local, node |-> node]

\* processClearMessage that goes on to clear after resetting the marker of
\* an echo
processClearMessageEchoClears(tree, p, op, context, local, message) ==
    LET t == IF local /\ tree[p].pendingClearClientSequenceNumber
                            = message.clientSequenceNumber
             THEN [tree EXCEPT ![p].pendingClearClientSequenceNumber = NoSeq]
             ELSE tree
    IN Result([t EXCEPT ![p] = clearExceptPendingKeys(@)],
              <<clearEvent(local)>>, FALSE, TRUE)

\* processClearMessage that resets the marker on the echo of any local clear
processClearMessageAnyEcho(tree, p, op, context, local, message) ==
    IF local
    THEN Result([tree EXCEPT ![p].pendingClearClientSequenceNumber = NoSeq],
                << >>, FALSE, TRUE)
    ELSE Result([tree EXCEPT ![p] = clearExceptPendingKeys(@)],
                <<clearEvent(local)>>, FALSE, TRUE)

\* SubDirectory.processClearMessage
processClearMessage(tree, p, op, context, local, message) ==
    IF local
    THEN Result(IF tree[p].pendingClearClientSequenceNumber = message.clientSequenceNumber
                THEN [tree EXCEPT ![p].pendingClearClientSequenceNumber = NoSeq]
                ELSE tree,
                << >>, FALSE, TRUE)
    ELSE Result([tree EXCEPT ![p] = clearExceptPendingKeys(@)],
                <<clearEvent(local)>>, FALSE, TRUE)

\* SubDirectory.processDeleteMessage
processDeleteMessage(tree, p, op, context, local, message) ==
    LET n == needProcessStorageOperations(tree[p], op, local, message)
        t == [tree EXCEPT ![p] = n.node]
    IN IF ~n.need THEN Result(t, << >>, FALSE, TRUE)
       ELSE deleteCore(t, p, op.key, local)

\* SubDirectory.processSetMessage
processSetMessage(tree, p, op, context, local, message) ==
    LET n == needProcessStorageOperations(tree[p], op, local, message)
        t == [tree EXCEPT ![p] = n.node]
    IN IF ~n.need THEN Result(t, << >>, FALSE, TRUE)
       ELSE setCore(t, p, op.key, context, local)

\* SubDirectory.processCreateSubDirectoryMessage
processCreateSubDirectoryMessage(tree, p, op, context, local, message) ==
    LET n == needProcessSubDirectoryOperations(tree[p], op, local, message)
        t == [tree EXCEPT ![p] = n.node]
    IN IF ~n.need THEN Result(t, << >>, FALSE, TRUE)
       ELSE Result(createSubDirectoryCore(t, p, op.subdirName), << >>, FALSE, TRUE)

\* SubDirectory.processDeleteSubDirectoryMessage
processDeleteSubDirectoryMessage(tree, p, op, context, local, message) ==
    LET n == needProcessSubDirectoryOperations(tree[p], op, local, message)
        t == [tree EXCEPT ![p] = n.node]
    IN IF ~n.need THEN Result(t, << >>, FALSE, TRUE)
       ELSE Result(deleteSubDirectoryCore(t, p, op.subdirName), << >>, FALSE, TRUE)

-----------------------------------------------------------------------------
(* Operations (IDirectoryOperation) and sequenced messages *)

Op(type, path, key, subdirName, value) ==
    [type |-> type, path |-> path, key |-> key, subdirName |-> subdirName,
     value |-> value]

setOp(path, key, serializable) == Op("set", path, key, NoName, serializable)
deleteOp(path, key) == Op("delete", path, key, NoName, NoValue)
clearOp(path) == Op("clear", path, NoKey, NoName, NoValue)
createSubDirectoryOp(path, subdirName) ==
    Op("createSubDirectory", path, NoKey, subdirName, NoValue)
deleteSubDirectoryOp(path, subdirName) ==
    Op("deleteSubDirectory", path, NoKey, subdirName, NoValue)
\* value: { opName, value: params }; the only value-type op is the counter's
\* "increment", so type carries opName and value the params
actOp(path, key, opName, params) ==
    Op("act", path, key, NoName, [type |-> opName, value |-> params])

Message(clientId, clientSequenceNumber, referenceSequenceNumber, contents) ==
    [clientId |-> clientId,
     clientSequenceNumber |-> clientSequenceNumber,
     referenceSequenceNumber |-> referenceSequenceNumber,
     contents |-> contents]

\* SubDirectory.submitClearMessage, given what submitDirectoryMessage returned
submitClearMessage(tree, p, op, clientSequenceNumber) ==
    IF clientSequenceNumber # NoSeq
    THEN [tree EXCEPT ![p].pendingClearClientSequenceNumber = clientSequenceNumber]
    ELSE tree

\* submitKeyMessage that records whatever number the submit function returned
submitKeyMessageUnguarded(tree, p, op, clientSequenceNumber) ==
    [tree EXCEPT ![p].pendingKeys = With(@, op.key, clientSequenceNumber)]

\* submitKeyMessage that keeps the number already recorded for the key
submitKeyMessageKeepsFirst(tree, p, op, clientSequenceNumber) ==
    IF clientSequenceNumber # NoSeq /\ op.key \notin DOMAIN tree[p].pendingKeys
    THEN [tree EXCEPT ![p].pendingKeys = With(@, op.key, clientSequenceNumber)]
    ELSE tree

\* SubDirectory.submitKeyMessage
submitKeyMessage(tree, p, op, clientSequenceNumber) ==
    IF clientSequenceNumber # NoSeq
    THEN [tree EXCEPT ![p].pendingKeys = With(@, op.key, clientSequenceNumber)]
    ELSE tree

\* submitSubDirectoryMessage that records whatever number was returned
submitSubDirectoryMessageUnguarded(tree, p, op, clientSequenceNumber) ==
    [tree EXCEPT ![p].pendingSubDirectories =
                     With(@, op.subdirName, clientSequenceNumber)]

\* SubDirectory.submitSubDirectoryMessage
submitSubDirectoryMessage(tree, p, op, clientSequenceNumber) ==
    IF clientSequenceNumber # NoSeq
    THEN [tree EXCEPT ![p].pendingSubDirectories =
                          With(@, op.subdirName, clientSequenceNumber)]
    ELSE tree

-----------------------------------------------------------------------------
(* SubDirectory's public operations.  csn is the client-sequence-number the *)
(* submit function returns for the operation (NoSeq when not connected);   *)
(* the result carries the operation submitted, none when the call raised.  *)

Submitting(result, op) ==
    [tree |-> result.tree, events |-> result.events, threw |-> result.threw,
     ret |-> result.ret, ops |-> IF result.threw THEN << >> ELSE <<op>>]

\* SubDirectory.set
set(tree, p, key, value, type, csn) ==
    LET isValueType == type # "" /\ type # "Plain" /\ type # "Shared"
        localValue == IF isValueType THEN makeValueType(type, value)
                      ELSE fromInMemory(value)
        serializableValue == IF isValueType THEN [type |-> type, value |-> value]
                             ELSE makeSerializable(localValue)
        core == setCore(tree, p, key, localValue, TRUE)
        op == setOp(tree[p].absolutePath, key, serializableValue)
    IN IF core.threw THEN Submitting(core, op)
       ELSE Submitting(Result(submitKeyMessage(core.tree, p, op, csn),
                              core.events, FALSE, TRUE), op)

\* SubDirectory.delete
delete(tree, p, key, csn) ==
    LET op == deleteOp(tree[p].absolutePath, key)
        core == deleteCore(tree, p, key, TRUE)
    IN IF core.threw THEN Submitting(core, op)
       ELSE Submitting(Result(submitKeyMessage(core.tree, p, op, csn),
                              core.events, FALSE, core.ret), op)

\* SubDirectory.clear
clear(tree, p, csn) ==
    LET op == clearOp(tree[p].absolutePath)
        core == clearCore(tree, p, TRUE)
    IN Submitting(Result(submitClearMessage(core.tree, p, op, csn),
                         core.events, FALSE, TRUE), op)

\* a subdirectory name is a string; "x/y" stands for any name holding posix.sep
HasSep(subdirName) == subdirName = "x/y"

\* createSubDirectory that tests the name only after it created the child
createSubDirectoryChecksLate(tree, p, subdirName, csn) ==
    LET op == createSubDirectoryOp(tree[p].absolutePath, subdirName) IN
    IF HasSep(subdirName)
    THEN Submitting(Result(createSubDirectoryCore(tree, p, subdirName),
                           << >>, TRUE, FALSE), op)
    ELSE Submitting(Result(submitSubDirectoryMessage(
                               createSubDirectoryCore(tree, p, subdirName), p, op, csn),
                           << >>, FALSE, Append(p, subdirName)), op)

\* SubDirectory.createSubDirectory: returns the child, given here by its
\* position in the resulting tree
createSubDirectory(tree, p, subdirName, csn) ==
    LET op == createSubDirectoryOp(tree[p].absolutePath, subdirName) IN
    IF HasSep(subdirName) THEN Submitting(Result(tree, << >>, TRUE, FALSE), op)
    ELSE Submitting(Result(submitSubDirectoryMessage(
                               createSubDirectoryCore(tree, p, subdirName), p, op, csn),
                           << >>, FALSE, Append(p, subdirName)), op)

\* SubDirectory.deleteSubDirectory
deleteSubDirectory(tree, p, subdirName, csn) ==
    LET op == deleteSubDirectoryOp(tree[p].absolutePath, subdirName) IN
    Submitting(Result(submitSubDirectoryMessage(
                          deleteSubDirectoryCore(tree, p, subdirName), p, op, csn),
                      << >>, FALSE, Append(p, subdirName) \in DOMAIN tree), op)

\* Counter.increment on the value-type value stored under key, which emits
\* through SharedDirectory.makeDirectoryValueOpEmitter: the act operation is
\* submitted with no pending marker and valueChanged fires locally
increment(tree, p, key, csn) ==
    LET previousValue == tree[p].storage[key]
        op == actOp(tree[p].absolutePath, key, "increment", 1)
    IN Submitting(Result([tree EXCEPT ![p].storage[key].value = @ + 1],
                         <<valueChanged(key, tree[p].absolutePath, previousValue, TRUE)>>,
                         FALSE, TRUE), op)

-----------------------------------------------------------------------------
(* SharedDirectory: the message handlers and processCore *)

HandlerTypes == {"clear", "delete", "set", "createSubDirectory",
                 "deleteSubDirectory", "act"}

\* the "set" handler's prepare: the remote value is made local
prepareSet(op, local) ==
    IF local THEN Undefined ELSE makeLocal(op.key, op.path, op.value)

\* the counter's "increment" op handler (process): local ops were applied
\* when the op was created
counterProcess(localValue, params, local) ==
    IF local THEN localValue ELSE [localValue EXCEPT !.value = @ + params]

\* the "act" handler's process
processAct(tree, op, local, message) ==
    LET subdir == getWorkingDirectory(tree, op.path)
        localValue == IF subdir # NoNode THEN get(tree[subdir], op.key) ELSE Undefined
    IN IF localValue = Undefined \/ ~IsValueType(localValue)
          \/ op.value.type # "increment"
       THEN Result(tree, << >>, TRUE, FALSE)
       ELSE Result([tree EXCEPT ![subdir].storage[op.key] =
                        counterProcess(localValue, op.value.value, local)],
                   <<valueChangedNoPath(op.key, localValue, local)>>, FALSE, TRUE)

\* the handlers' process for the five structural operations: the target is
\* resolved by path and a missing subdirectory drops the operation
processStructural(tree, op, local, message) ==
    LET subdir == getWorkingDirectory(tree, op.path) IN
    IF subdir = NoNode THEN Result(tree, << >>, FALSE, TRUE)
    ELSE CASE op.type = "clear" ->
                processClearMessage(tree, subdir, op, Undefined, local, message)
           [] op.type = "delete" ->
                processDeleteMessage(tree, subdir, op, Undefined, local, message)
           [] op.type = "set" ->
                processSetMessage(tree, subdir, op, prepareSet(op, local), local, message)
           [] op.type = "createSubDirectory" ->
                processCreateSubDirectoryMessage(tree, subdir, op, Undefined, local, message)
           [] op.type = "deleteSubDirectory" ->
                processDeleteSubDirectoryMessage(tree, subdir, op, Undefined, local, message)

\* SharedDirectory.processCore
processCore(tree, message, local) ==
    LET op == message.contents IN
    IF op.type \in HandlerTypes
    THEN IF op.type = "act" THEN processAct(tree, op, local, message)
         ELSE processStructural(tree, op, local, message)
    ELSE Result(tree, << >>, FALSE, TRUE)

-----------------------------------------------------------------------------
(* SubDirectory.wait.  A waiter is the promise of one wait(key) call: the  *)
(* node it was called on (its tree position, or the node itself once it    *)
(* is detached from the tree), the key, whether its callback is still      *)
(* subscribed to "valueChanged", and how the promise was settled.          *)

Waiter(p, absolutePath, key, listening, state, value) ==
    [p |-> p, absolutePath |-> absolutePath, key |-> key, attached |-> TRUE,
     orphan |-> SubDirectory(absolutePath), listening |-> listening,
     state |-> state, value |-> value, resolves |-> IF state = "resolved" THEN 1 ELSE 0]

\* SubDirectory.wait: settled at once when the key is stored (rejected when
\* the stored local value is undefined), otherwise subscribed
wait(tree, p, key) ==
    LET node == tree[p] IN
    IF has(node, key)
    THEN IF getThrows(node, key)
         THEN Waiter(p, node.absolutePath, key, FALSE, "rejected", Undefined)
         ELSE Waiter(p, node.absolutePath, key, FALSE, "resolved", get(node, key))
    ELSE Waiter(p, node.absolutePath, key, TRUE, "pending", Undefined)

\* the node object a waiter holds, at the time the events of a handler that
\* leaves the tree as given are emitted
WaiterNode(w, tree) ==
    IF w.attached /\ w.p \in DOMAIN tree THEN tree[w.p] ELSE w.orphan

\* the callback of wait on one event
waitCallback(w, tree, changed) ==
    IF /\ w.listening
       /\ changed.event = "valueChanged"
       /\ changed.hasPath /\ changed.path = w.absolutePath
       /\ changed.key = w.key
    THEN LET node == WaiterNode(w, tree) IN
         IF getThrows(node, w.key)
         THEN [w EXCEPT !.state = IF @ = "pending" THEN "raised" ELSE @]
         ELSE [w EXCEPT !.state = "resolved",
                        !.value = IF w.resolves = 0 THEN get(node, w.key) ELSE @,
                        !.resolves = @ + 1,
                        !.listening = FALSE]
    ELSE w

RECURSIVE emit(_, _, _)
\* EventEmitter.emit of the events of one handler, in order
emit(w, tree, events) ==
    IF events = << >> THEN w
    ELSE emit(waitCallback(w, tree, Head(events)), tree, Tail(events))

\* what a handler does to the waiters: their callbacks see its events, and a
\* waiter whose node the handler removed from the tree keeps the node
Notify(ws, tree, result) ==
    [i \in DOMAIN ws |->
        LET w == emit(ws[i], result.tree, result.events) IN
        IF w.attached /\ w.p \notin DOMAIN result.tree
        THEN [w EXCEPT !.attached = FALSE, !.orphan = tree[w.p]]
        ELSE w]

-----------------------------------------------------------------------------
(* The directory state machine *)

\* SharedObject.submitLocalMessage: the number the next submission gets
submitLocalMessage(r) == IF connected[r] THEN clientSeq[r] + 1 ELSE NoSeq

\* SharedDirectory.submitDirectoryMessage for the operations a local call
\* submitted: sequenced when connected, kept for resending otherwise
SubmitAll(r, ops) ==
    IF ops = << >>
    THEN UNCHANGED <<log, clientSeq, unsent>>
    ELSE IF connected[r]
         THEN /\ log' = Append(log, Message(r, clientSeq[r] + 1, delivered[r], ops[1]))
              /\ clientSeq' = [clientSeq EXCEPT ![r] = @ + 1]
              /\ UNCHANGED unsent
         ELSE /\ unsent' = [unsent EXCEPT ![r] = Append(@, ops[1])]
              /\ UNCHANGED <<log, clientSeq>>

\* a local call on the node at position p of replica r, with its result
Local(r, result) ==
    /\ nodes' = [nodes EXCEPT ![r] = result.tree]
    /\ waiters' = [waiters EXCEPT ![r] = Notify(@, nodes[r], result)]
    /\ SubmitAll(r, result.ops)
    /\ UNCHANGED <<connected, delivered, mapData, snap, loaded>>

LocalSet(r, p, key, input) ==
    /\ p \in DOMAIN nodes[r]
    /\ Local(r, set(nodes[r], p, key, input[1], input[2], submitLocalMessage(r)))

LocalDelete(r, p, key) ==
    /\ p \in DOMAIN nodes[r]
    /\ Local(r, delete(nodes[r], p, key, submitLocalMessage(r)))

LocalClear(r, p) ==
    /\ p \in DOMAIN nodes[r]
    /\ Local(r, clear(nodes[r], p, submitLocalMessage(r)))

LocalCreateSubDirectory(r, p, subdirName) ==
    /\ p \in DOMAIN nodes[r]
    /\ HasSep(subdirName) \/ Append(p, subdirName) \in Positions
    /\ Local(r, createSubDirectory(nodes[r], p, subdirName, submitLocalMessage(r)))

LocalDeleteSubDirectory(r, p, subdirName) ==
    /\ p \in DOMAIN nodes[r]
    /\ Append(p, subdirName) \in Positions
    /\ Local(r, deleteSubDirectory(nodes[r], p, subdirName, submitLocalMessage(r)))

LocalIncrement(r, p, key) ==
    /\ p \in DOMAIN nodes[r]
    /\ has(nodes[r][p], key)
    /\ IsValueType(nodes[r][p].storage[key])
    /\ nodes[r][p].storage[key].value < MaxCounter
    /\ Local(r, increment(nodes[r], p, key, submitLocalMessage(r)))

\* another client of the ordering service submits an operation of a type this
\* directory has no handler for
OtherClient == CHOOSE c \in 0..Cardinality(Replicas) : c \notin Replicas
SubmitUnknown ==
    /\ log' = Append(log, Message(OtherClient, Len(log) + 1, Len(log),
                                  Op("unknown", sep, NoKey, NoName, NoValue)))
    /\ UNCHANGED <<nodes, clientSeq, connected, unsent, delivered, waiters,
                   mapData, snap, loaded>>

\* replica r processes the next sequenced message
Process(r) ==
    /\ delivered[r] < Len(log)
    /\ LET message == log[delivered[r] + 1]
           result == processCore(nodes[r], message, message.clientId = r)
       IN /\ nodes' = [nodes EXCEPT ![r] = result.tree]
          /\ waiters' = [waiters EXCEPT ![r] = Notify(@, nodes[r], result)]
    /\ delivered' = [delivered EXCEPT ![r] = @ + 1]
    /\ UNCHANGED <<clientSeq, connected, unsent, log, mapData, snap, loaded>>

InitDirectory ==
    /\ nodes = [r \in Replicas |-> (<< >> :> SubDirectory(sep))]
    /\ clientSeq = [r \in Replicas |-> 0]
    /\ connected = [r \in Replicas |-> TRUE]
    /\ unsent = [r \in Replicas |-> << >>]
    /\ log = << >>
    /\ delivered = [r \in Replicas |-> 0]
    /\ waiters = [r \in Replicas |-> << >>]

InitMapIdle ==
    /\ mapData = << >>
    /\ snap = [pc |-> "idle", tree |-> << >>, toRead |-> {}]
    /\ loaded = Empty

Init == InitDirectory /\ InitMapIdle

Next ==
    \/ \E r \in Replicas, p \in Positions, key \in Keys :
          \E input \in SetInputs(r) :
             Len(log) < MaxOps /\ LocalSet(r, p, key, input)
    \/ \E r \in Replicas, p \in Positions, key \in Keys :
          Len(log) < MaxOps /\ LocalDelete(r, p, key)
    \/ \E r \in Replicas, p \in Positions :
          Len(log) < MaxOps /\ LocalClear(r, p)
    \/ \E r \in Replicas, p \in Positions, subdirName \in Names :
          Len(log) < MaxOps /\ LocalCreateSubDirectory(r, p, subdirName)
    \/ \E r \in Replicas, p \in Positions, subdirName \in Names :
          Len(log) < MaxOps /\ LocalDeleteSubDirectory(r, p, subdirName)
    \/ \E r \in Replicas, p \in Positions, key \in Keys :
          Len(log) < MaxOps /\ LocalIncrement(r, p, key)
    \/ Len(log) < MaxOps /\ SubmitUnknown
    \/ \E r \in Replicas : Process(r)

Spec == Init /\ [][Next]_vars

\* The key-only specification: set, delete and clear of plain values on the
\* root node, with a longer log.
NextKeys ==
    \/ \E r \in Replicas, key \in Keys, v \in PlainValues :
          Len(log) < MaxKeyOps /\ LocalSet(r, << >>, key, <<v, "Plain">>)
    \/ \E r \in Replicas, key \in Keys :
          Len(log) < MaxKeyOps /\ LocalDelete(r, << >>, key)
    \/ \E r \in Replicas :
          Len(log) < MaxKeyOps /\ LocalClear(r, << >>)
    \/ \E r \in Replicas : Process(r)

SpecKeys == Init /\ [][NextKeys]_vars

\* SharedDirectory.onDisconnect: nothing but the connection state changes
Disconnect(r) ==
    /\ connected[r]
    /\ connected' = [connected EXCEPT ![r] = FALSE]
    /\ UNCHANGED <<nodes, clientSeq, unsent, log, delivered, waiters,
                   mapData, snap, loaded>>

RECURSIVE onConnectSendsAll(_, _, _)
\* onConnect whose submit handlers send the operation whether or not its
\* path names a subdirectory
onConnectSendsAll(tree, pending, clientSequenceNumber) ==
    IF pending = << >> THEN [tree |-> tree, sent |-> << >>]
    ELSE LET op == Head(pending)
             subdir == getWorkingDirectory(tree, op.path)
             csn == clientSequenceNumber + 1
             submitted ==
                 CASE subdir = NoNode -> tree
                   [] op.type = "clear" -> submitClearMessage(tree, subdir, op, csn)
                   [] op.type \in {"set", "delete"} ->
                         submitKeyMessage(tree, subdir, op, csn)
                   [] op.type \in {"createSubDirectory", "deleteSubDirectory"} ->
                         submitSubDirectoryMessage(tree, subdir, op, csn)
                   [] OTHER -> tree
             rest == onConnectSendsAll(submitted, Tail(pending), csn)
         IN [tree |-> rest.tree,
             sent |-> <<[op |-> op, clientSequenceNumber |-> csn]>> \o rest.sent]

RECURSIVE onConnect(_, _, _)
\* SharedDirectory.onConnect: every pending operation goes through the submit
\* of its handler, which resolves the path again, drops the operation when
\* the subdirectory is gone, and records the new number as pending marker
onConnect(tree, pending, clientSequenceNumber) ==
    IF pending = << >> THEN [tree |-> tree, sent |-> << >>]
    ELSE LET op == Head(pending)
             subdir == getWorkingDirectory(tree, op.path)
             csn == clientSequenceNumber + 1
         IN IF op.type # "act" /\ subdir = NoNode
            THEN onConnect(tree, Tail(pending), clientSequenceNumber)
            ELSE LET submitted ==
                        CASE op.type = "clear" ->
                                submitClearMessage(tree, subdir, op, csn)
                          [] op.type \in {"set", "delete"} ->
                                submitKeyMessage(tree, subdir, op, csn)
                          [] op.type \in {"createSubDirectory", "deleteSubDirectory"} ->
                                submitSubDirectoryMessage(tree, subdir, op, csn)
                          [] OTHER -> tree
                     rest == onConnect(submitted, Tail(pending), csn)
                 IN [tree |-> rest.tree,
                     sent |-> <<[op |-> op, clientSequenceNumber |-> csn]>> \o rest.sent]

\* the replica connects: the operations kept while not connected are resent
Connect(r) ==
    /\ ~connected[r]
    /\ connected' = [connected EXCEPT ![r] = TRUE]
    /\ LET resent == onConnect(nodes[r], unsent[r], clientSeq[r]) IN
       /\ nodes' = [nodes EXCEPT ![r] = resent.tree]
       /\ log' = log \o [i \in 1..Len(resent.sent) |->
                            Message(r, resent.sent[i].clientSequenceNumber,
                                    delivered[r], resent.sent[i].op)]
       /\ clientSeq' = [clientSeq EXCEPT ![r] = @ + Len(resent.sent)]
    /\ unsent' = [unsent EXCEPT ![r] = << >>]
    /\ UNCHANGED <<delivered, waiters, mapData, snap, loaded>>

\* The tree specification: one replica works on a tree of two names and two
\* levels, connected or not, and processes the echoes of what it sent.
TreeReplicas == {1}
TreeNames == {"a", "b"}
\* the positions the tree may take: /, /a and /a/b
TreePositions == {<< >>, <<"a">>, <<"a", "b">>}
\* a name createSubDirectory must refuse
BadNames == {"x/y"}
\* the replica submits at most MaxTreeOps operations
MaxTreeOps == 3
TreeOps(r) == Len(log) + Len(unsent[r])

NextTree ==
    \/ \E r \in TreeReplicas, p \in TreePositions, key \in Keys :
          TreeOps(r) < MaxTreeOps /\ LocalSet(r, p, key, <<r, "Plain">>)
    \/ \E r \in TreeReplicas, p \in TreePositions, key \in Keys :
          TreeOps(r) < MaxTreeOps /\ LocalDelete(r, p, key)
    \/ \E r \in TreeReplicas, p \in TreePositions :
          TreeOps(r) < MaxTreeOps /\ LocalClear(r, p)
    \/ \E r \in TreeReplicas, p \in TreePositions, subdirName \in TreeNames \cup BadNames :
          /\ TreeOps(r) < MaxTreeOps
          /\ p \in DOMAIN nodes[r]
          /\ HasSep(subdirName) \/ Append(p, subdirName) \in TreePositions
          /\ Local(r, createSubDirectory(nodes[r], p, subdirName, submitLocalMessage(r)))
    \/ \E r \in TreeReplicas, p \in TreePositions, subdirName \in TreeNames :
          /\ TreeOps(r) < MaxTreeOps
          /\ p \in DOMAIN nodes[r]
          /\ Local(r, deleteSubDirectory(nodes[r], p, subdirName, submitLocalMessage(r)))
    \/ \E r \in TreeReplicas : Disconnect(r)
    \/ \E r \in TreeReplicas : Connect(r)
    \/ \E r \in TreeReplicas : Process(r)

SpecTree == Init /\ [][NextTree]_vars

\* The path specification: the replica builds a tree, deletes children it
\* has and sets keys; paths are resolved against every tree it reaches.
MaxPathOps == 3
\* the positions the tree of the path specification may take
PathPositions == {<< >>, <<"a">>, <<"b">>, <<"a", "b">>}

NextPath ==
    \/ \E r \in TreeReplicas, p \in PathPositions, subdirName \in TreeNames :
          /\ Len(log) < MaxPathOps
          /\ p \in DOMAIN nodes[r]
          /\ Append(p, subdirName) \in PathPositions
          /\ Local(r, createSubDirectory(nodes[r], p, subdirName, submitLocalMessage(r)))
    \/ \E r \in TreeReplicas, p \in PathPositions, subdirName \in TreeNames :
          /\ Len(log) < MaxPathOps
          /\ Append(p, subdirName) \in DOMAIN nodes[r]
          /\ Local(r, deleteSubDirectory(nodes[r], p, subdirName, submitLocalMessage(r)))
    \/ \E r \in TreeReplicas, p \in PathPositions, key \in Keys, v \in PlainValues :
          Len(log) < MaxPathOps /\ LocalSet(r, p, key, <<v, "Plain">>)

SpecPath == Init /\ [][NextPath]_vars

\* The resend specification: one replica sets plain values and counters,
\* increments, deletes, clears and creates and deletes /a, connected or not;
\* what it submitted while not connected is resent when it connects.
\* the replica submits at most MaxResendOps operations
MaxResendOps == 3

NextResend ==
    \/ \E r \in TreeReplicas, p \in Positions, key \in Keys :
          \E input \in SetInputs(r) :
             TreeOps(r) < MaxResendOps /\ LocalSet(r, p, key, input)
    \/ \E r \in TreeReplicas, p \in Positions, key \in Keys :
          TreeOps(r) < MaxResendOps /\ LocalDelete(r, p, key)
    \/ \E r \in TreeReplicas, p \in Positions :
          TreeOps(r) < MaxResendOps /\ LocalClear(r, p)
    \/ \E r \in TreeReplicas, p \in Positions, subdirName \in Names :
          TreeOps(r) < MaxResendOps /\ LocalCreateSubDirectory(r, p, subdirName)
    \/ \E r \in TreeReplicas, p \in Positions, subdirName \in Names :
          TreeOps(r) < MaxResendOps /\ LocalDeleteSubDirectory(r, p, subdirName)
    \/ \E r \in TreeReplicas, p \in Positions, key \in Keys :
          TreeOps(r) < MaxResendOps /\ LocalIncrement(r, p, key)
    \/ \E r \in TreeReplicas : Disconnect(r)
    \/ \E r \in TreeReplicas : Connect(r)

SpecResend == Init /\ [][NextResend]_vars

\* replica r calls wait(key) on the node at position p
Wait(r, p, key) ==
    /\ p \in DOMAIN nodes[r]
    /\ waiters' = [waiters EXCEPT ![r] = Append(@, wait(nodes[r], p, key))]
    /\ UNCHANGED <<nodes, clientSeq, connected, unsent, log, delivered,
                   mapData, snap, loaded>>

\* The wait specification: replica 1 waits for key "k" on the root or on /a,
\* sets and deletes keys there, creates and deletes /a and processes the
\* log, while the other replica sets "k" and clears on its root.
WaitReplica == CHOOSE r \in Replicas : \A x \in Replicas : r <= x
WaitKey == "k"
WaitKeys == {"k", "j"}
\* the log of the wait specification holds at most MaxWaitOps messages
MaxWaitOps == 4
\* wait is called at most MaxWaiters times
MaxWaiters == 1

NextWait ==
    \/ \E p \in Positions :
          Len(waiters[WaitReplica]) < MaxWaiters /\ Wait(WaitReplica, p, WaitKey)
    \/ \E p \in Positions, key \in WaitKeys :
          Len(log) < MaxWaitOps /\ LocalSet(WaitReplica, p, key, <<WaitReplica, "Plain">>)
    \/ \E r \in Replicas \ {WaitReplica}, p \in Positions :
          Len(log) < MaxWaitOps /\ LocalSet(r, p, WaitKey, <<r, "Plain">>)
    \/ \E p \in Positions :
          Len(log) < MaxWaitOps /\ LocalDelete(WaitReplica, p, WaitKey)
    \/ \E r \in Replicas \ {WaitReplica}, p \in Positions :
          Len(log) < MaxWaitOps /\ LocalClear(r, p)
    \/ \E subdirName \in Names :
          Len(log) < MaxWaitOps /\ LocalCreateSubDirectory(WaitReplica, << >>, subdirName)
    \/ \E subdirName \in Names :
          Len(log) < MaxWaitOps /\ LocalDeleteSubDirectory(WaitReplica, << >>, subdirName)
    \/ Process(WaitReplica)

SpecWait == Init /\ [][NextWait]_vars

-----------------------------------------------------------------------------
(* SharedMap.snapshot and SharedMap.loadCore.                              *)
(* kernel.getSerializedStorage() is a sequence of entries in Object.keys   *)
(* order, each { key, type, value } with value a JSON string or undefined. *)
(* A JSON string is modelled by its length: the string of length n parses  *)
(* to the object n, which stringifies back to the string of length n.      *)

MinValueSizeSeparateSnapshotBlob == 8 * 1024
MaxSnapshotBlobSize == 16 * 1024
\* "Approximation cost of property header"
PropertyHeaderCost == 21

\* at most MaxEntries entries in a generated map
MaxEntries == 3
\* serialized value lengths of a generated map
ValueLengths == {100, 8191, 8192}
\* scenario S3: ten entries of 2 KiB and one of 20 KiB
SmallLength == 2 * 1024
LargeLength == 20 * 1024

String(n) == [defined |-> TRUE, length |-> n]
UndefinedString == [defined |-> FALSE, length |-> 0]

\* value.type.length
TypeLength(type) ==
    CASE type = "Plain" -> 5
      [] type = "Shared" -> 6
      [] OTHER -> 7

\* JSON.parse of a value string, undefined kept as undefined
jsonParse(str) ==
    IF str.defined THEN [hasValue |-> TRUE, object |-> str.length]
    ELSE [hasValue |-> FALSE, object |-> 0]

\* JSON.stringify of a parsed value
jsonStringify(value) ==
    IF value.hasValue THEN String(value.object) ELSE UndefinedString

blobName(counter) == [name |-> "blob", n |-> counter]
snapshotFileName == [name |-> "header", n |-> 0]

\* one property of a blob: { type, value }
Property(type, value) == [type |-> type, value |-> value]

\* addBlobToTree for an auxiliary blob and for the header
auxBlob(path, content) ==
    [path |-> path, hasBlobs |-> FALSE, blobs |-> << >>, content |-> content]
headerBlobEntry(blobs, content) ==
    [path |-> snapshotFileName, hasBlobs |-> TRUE, blobs |-> blobs, content |-> content]
\* the header of the legacy format: the data object itself
legacyHeader(content) ==
    [path |-> snapshotFileName, hasBlobs |-> FALSE, blobs |-> << >>, content |-> content]

\* the separation test that keeps a value of exactly 8 KiB in the rolling blob
separateBlobStrict(value) ==
    value.value.defined /\ value.value.length > MinValueSizeSeparateSnapshotBlob

\* whether a property goes into a blob of its own
separateBlob(value) ==
    value.value.defined /\ value.value.length >= MinValueSizeSeparateSnapshotBlob

\* the running size after a property is counted
addedSize(currentSize, value) ==
    currentSize + TypeLength(value.type) + PropertyHeaderCost
        + (IF value.value.defined THEN value.value.length ELSE 0)

\* the loop body that forgets the property at hand when it starts a new
\* rolling blob
snapshotKeyDropsOnFlush(st, value) ==
    IF separateBlob(value)
    THEN [st EXCEPT
            !.counter = @ + 1,
            !.blobs = Append(@, blobName(st.counter)),
            !.tree = Append(@, auxBlob(blobName(st.counter),
                         (value.key :> Property(value.type, jsonParse(value.value)))))]
    ELSE LET size == addedSize(st.currentSize, value)
             property == Property(value.type, jsonParse(value.value))
         IN IF size > MaxSnapshotBlobSize
            THEN [st EXCEPT
                    !.counter = @ + 1,
                    !.blobs = Append(@, blobName(st.counter)),
                    !.tree = Append(@, auxBlob(blobName(st.counter), st.headerBlob)),
                    !.headerBlob = Empty,
                    !.currentSize = 0]
            ELSE [st EXCEPT
                    !.headerBlob = With(@, value.key, property),
                    !.currentSize = size]

\* the loop body that keeps the running size when it starts a new rolling
\* blob
snapshotKeyKeepsSize(st, value) ==
    IF separateBlob(value)
    THEN [st EXCEPT
            !.counter = @ + 1,
            !.blobs = Append(@, blobName(st.counter)),
            !.tree = Append(@, auxBlob(blobName(st.counter),
                         (value.key :> Property(value.type, jsonParse(value.value)))))]
    ELSE LET size == addedSize(st.currentSize, value)
             property == Property(value.type, jsonParse(value.value))
         IN IF size > MaxSnapshotBlobSize
            THEN [st EXCEPT
                    !.counter = @ + 1,
                    !.blobs = Append(@, blobName(st.counter)),
                    !.tree = Append(@, auxBlob(blobName(st.counter), st.headerBlob)),
                    !.headerBlob = (value.key :> property),
                    !.currentSize = size]
            ELSE [st EXCEPT
                    !.headerBlob = With(@, value.key, property),
                    !.currentSize = size]

\* the body of snapshot's loop for one key of the data
snapshotKey(st, value) ==
    IF separateBlob(value)
    THEN [st EXCEPT
            !.counter = @ + 1,
            !.blobs = Append(@, blobName(st.counter)),
            !.tree = Append(@, auxBlob(blobName(st.counter),
                         (value.key :> Property(value.type, jsonParse(value.value)))))]
    ELSE LET size == addedSize(st.currentSize, value)
             property == Property(value.type, jsonParse(value.value))
         IN IF size > MaxSnapshotBlobSize
            THEN [st EXCEPT
                    !.counter = @ + 1,
                    !.blobs = Append(@, blobName(st.counter)),
                    !.tree = Append(@, auxBlob(blobName(st.counter), st.headerBlob)),
                    !.headerBlob = (value.key :> property),
                    !.currentSize = 0]
            ELSE [st EXCEPT
                    !.headerBlob = With(@, value.key, property),
                    !.currentSize = size]

RECURSIVE snapshotLoop(_, _)
snapshotLoop(st, data) ==
    IF data = << >> THEN st
    ELSE snapshotLoop(snapshotKey(st, Head(data)), Tail(data))

\* SharedMap.snapshot: the tree's entries
snapshot(data) ==
    LET st == snapshotLoop([currentSize |-> 0, counter |-> 0, headerBlob |-> Empty,
                            blobs |-> << >>, tree |-> << >>], data)
    IN Append(st.tree, headerBlobEntry(st.blobs, st.headerBlob))

\* storage.read(name): the content of the tree's blob of that name
read(tree, name) == (CHOOSE i \in 1..Len(tree) : tree[i].path = name)

\* MapKernel.populateFromSerializable: every property is made local and set
populateFromSerializable(data, content) ==
    [key \in DOMAIN data \cup DOMAIN content |->
        IF key \in DOMAIN content THEN content[key] ELSE data[key]]

\* MapKernel.getSerializedStorage of a populated kernel, as a set of entries
getSerializedStorage(data) ==
    {[key |-> key, type |-> data[key].type, value |-> jsonStringify(data[key].value)] :
        key \in DOMAIN data}

Entries(data) == {data[i] : i \in 1..Len(data)}

\* the maps the snapshot is taken of: keys are distinct, key i is the i-th
MapEntry(i, type, str) == [key |-> i, type |-> type, value |-> str]
ValueStrings == {String(n) : n \in ValueLengths} \cup {UndefinedString}
GeneratedMaps ==
    UNION {{[i \in 1..n |-> MapEntry(i, "Plain", f[i])] : f \in [1..n -> ValueStrings]} :
              n \in 0..MaxEntries}
\* S3: the large entry at any place among the small ones; the lengths are
\* those of the payload, with or without the two quotes of a JSON string
ScenarioMaps ==
    {[i \in 1..11 |->
        MapEntry(i, "Plain", IF i = at THEN String(LargeLength + quotes)
                             ELSE String(SmallLength + quotes))] :
            at \in 1..11, quotes \in {0, 2}}

\* snapshot() is taken and its tree stored
TakeSnapshot ==
    /\ snap.pc = "created"
    /\ snap' = [snap EXCEPT !.pc = "stored", !.tree = snapshot(mapData)]
    /\ UNCHANGED <<mapData, loaded, dirVars>>

\* loadCore that populates the listed blobs but not the header's content
LoadHeaderBlobsOnly ==
    /\ snap.pc = "stored"
    /\ LET header == snap.tree[read(snap.tree, snapshotFileName)] IN
       /\ loaded' = IF header.hasBlobs THEN loaded
                    ELSE populateFromSerializable(loaded, header.content)
       /\ snap' = [snap EXCEPT
                      !.pc = IF header.hasBlobs /\ header.blobs # << >>
                             THEN "reading" ELSE "loaded",
                      !.toRead = IF header.hasBlobs THEN 1..Len(header.blobs) ELSE {}]
    /\ UNCHANGED <<mapData, dirVars>>

\* loadCore up to its first await on the blobs: the header is read; with a
\* blobs array its content is populated and every listed blob is to be read,
\* else the whole header body is populated
LoadHeader ==
    /\ snap.pc = "stored"
    /\ LET header == snap.tree[read(snap.tree, snapshotFileName)] IN
       /\ loaded' = populateFromSerializable(loaded, header.content)
       /\ snap' = [snap EXCEPT
                      !.pc = IF header.hasBlobs /\ header.blobs # << >>
                             THEN "reading" ELSE "loaded",
                      !.toRead = IF header.hasBlobs THEN 1..Len(header.blobs) ELSE {}]
    /\ UNCHANGED <<mapData, dirVars>>

\* one of the parallel blob reads completes and its content is populated
LoadBlob(i) ==
    /\ snap.pc = "reading"
    /\ i \in snap.toRead
    /\ LET header == snap.tree[read(snap.tree, snapshotFileName)]
           blob == snap.tree[read(snap.tree, header.blobs[i])]
       IN loaded' = populateFromSerializable(loaded, blob.content)
    /\ snap' = [snap EXCEPT !.toRead = @ \ {i},
                            !.pc = IF snap.toRead = {i} THEN "loaded" ELSE @]
    /\ UNCHANGED <<mapData, dirVars>>

InitMap ==
    /\ InitDirectory
    /\ mapData \in GeneratedMaps \cup ScenarioMaps
    /\ snap = [pc |-> "created", tree |-> << >>, toRead |-> {}]
    /\ loaded = Empty

NextMap ==
    \/ TakeSnapshot
    \/ LoadHeader
    \/ \E i \in 1..Len(mapData) : LoadBlob(i)

SpecMap == InitMap /\ [][NextMap]_vars

\* The load specification: loadCore reads what snapshot() wrote for a
\* generated map, or a header of the legacy format holding the same entries.
legacyTree(data) ==
    <<legacyHeader([key \in {data[i].key : i \in 1..Len(data)} |->
                      LET i == CHOOSE i \in 1..Len(data) : data[i].key = key
                      IN Property(data[i].type, jsonParse(data[i].value))])>>

InitLoad ==
    /\ InitDirectory
    /\ mapData \in GeneratedMaps
    /\ \/ snap = [pc |-> "created", tree |-> << >>, toRead |-> {}]
       \/ snap = [pc |-> "stored", tree |-> legacyTree(mapData), toRead |-> {}]
    /\ loaded = Empty

SpecLoad == InitLoad /\ [][NextMap]_vars

-----------------------------------------------------------------------------
(* Properties of the directory *)

Other(r) == CHOOSE o \in Replicas : o # r

\* replica r has a sequenced message left to process
HasNext(r) == delivered[r] < Len(log)
NextMessage(r) == log[delivered[r] + 1]
NextLocal(r) == NextMessage(r).clientId = r
\* what processing it does
NextResult(r) == processCore(nodes[r], NextMessage(r), NextLocal(r))
\* the tree position its path resolves to
NextTarget(r) == getWorkingDirectory(nodes[r], NextMessage(r).contents.path)

NoPending(node) ==
    /\ node.pendingKeys = Empty
    /\ node.pendingSubDirectories = Empty
    /\ node.pendingClearClientSequenceNumber = NoSeq

AllDrained(r) == \A p \in DOMAIN nodes[r] : NoPending(nodes[r][p])

\* the log index of the message replica r submitted with number c (0: none)
IndexOf(r, c) ==
    IF \E i \in 1..Len(log) : log[i].clientId = r /\ log[i].clientSequenceNumber = c
    THEN CHOOSE i \in 1..Len(log) :
            log[i].clientId = r /\ log[i].clientSequenceNumber = c
    ELSE 0

StructuralTypes == {"set", "delete", "clear", "createSubDirectory", "deleteSubDirectory"}

\* C1: two replicas that have processed the same prefix of the log and hold
\* no pending marker have the same subdirectory tree and the same entries in
\* every node.
Convergence ==
    \A r1, r2 \in Replicas :
        (delivered[r1] = delivered[r2] /\ AllDrained(r1) /\ AllDrained(r2))
        => /\ DOMAIN nodes[r1] = DOMAIN nodes[r2]
           /\ \A p \in DOMAIN nodes[r1] : nodes[r1][p].storage = nodes[r2][p].storage

\* the S1 situation at the node at position p of replica r: key's pending
\* marker is that of a local set whose value the node still holds
LocalSetPending(r, p, key) ==
    /\ p \in DOMAIN nodes[r]
    /\ key \in DOMAIN nodes[r][p].pendingKeys
    /\ LET i == IndexOf(r, nodes[r][p].pendingKeys[key]) IN
       /\ i > delivered[r]
       /\ log[i].contents.type = "set"
       /\ log[i].contents.key = key
       /\ log[i].contents.path = nodes[r][p].absolutePath
       /\ has(nodes[r][p], key)
       /\ nodes[r][p].storage[key] = fromSerializable(log[i].contents.value)

\* C2: while a local set(k, A) is unacknowledged, processing a remote set or
\* delete of k for that node changes nothing (get(k) stays A, the marker
\* stays) and emits no event; processing the echo with the marker's number
\* removes exactly the marker and get(k) is still A.
LocalShadowsRemote ==
    \A r \in Replicas :
        (HasNext(r) /\ NextMessage(r).contents.type \in {"set", "delete"}
            /\ LocalSetPending(r, NextTarget(r), NextMessage(r).contents.key))
        => LET p == NextTarget(r)
               key == NextMessage(r).contents.key
               result == NextResult(r)
           IN /\ result.events = << >>
              /\ ~result.threw
              /\ IF ~NextLocal(r)
                 THEN result.tree = nodes[r]
                 ELSE IF nodes[r][p].pendingKeys[key] = NextMessage(r).clientSequenceNumber
                      THEN result.tree =
                              [nodes[r] EXCEPT ![p].pendingKeys = Without(@, key)]
                      ELSE result.tree = nodes[r]

\* C2 witness: a replica has processed the echo of its set(k, A), had
\* processed a remote set or delete of k between the set and its echo, holds
\* A under k and no marker.
LocalShadowsRemoteWitness ==
    \E r \in Replicas, key \in Keys :
        /\ delivered[r] >= 2
        /\ LET echo == log[delivered[r]] IN
           /\ echo.clientId = r
           /\ echo.contents.type = "set"
           /\ echo.contents.key = key
           /\ echo.contents.path = sep
           /\ key \notin DOMAIN nodes[r][<< >>].pendingKeys
           /\ has(nodes[r][<< >>], key)
           /\ nodes[r][<< >>].storage[key] = fromSerializable(echo.contents.value)
           /\ \E j \in (echo.referenceSequenceNumber + 1)..(delivered[r] - 1) :
                 /\ log[j].clientId # r
                 /\ log[j].contents.type = "set"
                 /\ log[j].contents.key = key
                 /\ log[j].contents.path = sep
                 /\ log[j].contents.value # echo.contents.value

\* scenario S2 as seen by replica r: the log is, in the order r met them,
\* r's set(k, 1), a remote set(k, 2) that r processed after that set and
\* before its clear, r's clear, and a remote set(k, v3) sequenced after the
\* clear
S2(r, i1, i2, i3, i4) ==
    /\ Len(log) = 4
    /\ {i1, i2, i3, i4} = 1..4
    /\ i1 < i3 /\ i2 < i4 /\ i3 < i4
    /\ \A i \in {i1, i2, i3, i4} : log[i].contents.path = sep
    /\ log[i1].clientId = r /\ log[i1].contents.type = "set"
    /\ log[i3].clientId = r /\ log[i3].contents.type = "clear"
    /\ log[i2].clientId # r /\ log[i2].contents.type = "set"
    /\ log[i4].clientId # r /\ log[i4].contents.type = "set"
    /\ log[i1].referenceSequenceNumber < i2
    /\ i2 <= log[i3].referenceSequenceNumber

\* C3: in scenario S2 the storage of the replica is empty from its clear
\* until the last remote set is processed, and once all four messages are
\* processed it holds exactly the value of the last remote set.
ClearMasksPending ==
    \A r \in Replicas, i1, i2, i3, i4 \in 1..4 :
        S2(r, i1, i2, i3, i4)
        => /\ delivered[r] < i4 => nodes[r][<< >>].storage = Empty
           /\ delivered[r] = 4 =>
                nodes[r][<< >>].storage =
                    [key \in {log[i4].contents.key} |->
                        fromSerializable(log[i4].contents.value)]

\* C4: once a replica has processed every message of the log (the echo of
\* each of its own operations included), every pending map of every node of
\* its tree is empty.
PendingMarkersDrain ==
    \A r \in Replicas : delivered[r] = Len(log) => AllDrained(r)

\* C5: while a node's pendingClearClientSequenceNumber is not -1, processing
\* a remote set or delete addressed to that node changes nothing and emits
\* no event.
ClearMasksRemote ==
    \A r \in Replicas :
        (/\ HasNext(r) /\ ~NextLocal(r)
         /\ NextMessage(r).contents.type \in {"set", "delete"}
         /\ NextTarget(r) # NoNode
         /\ nodes[r][NextTarget(r)].pendingClearClientSequenceNumber # NoSeq)
        => /\ NextResult(r).tree = nodes[r]
           /\ NextResult(r).events = << >>
           /\ ~NextResult(r).threw

\* C5 witness: a replica has just processed a remote set addressed to a node
\* whose clear, issued before, is still unacknowledged; the key is absent.
ClearMasksRemoteWitness ==
    \E r \in Replicas :
        /\ delivered[r] >= 1
        /\ LET message == log[delivered[r]]
               p == getWorkingDirectory(nodes[r], message.contents.path)
           IN /\ message.clientId # r
              /\ message.contents.type = "set"
              /\ p # NoNode
              /\ nodes[r][p].pendingClearClientSequenceNumber # NoSeq
              /\ LET i == IndexOf(r, nodes[r][p].pendingClearClientSequenceNumber) IN
                 /\ i > delivered[r]
                 /\ log[i].referenceSequenceNumber < delivered[r]
              /\ ~has(nodes[r][p], message.contents.key)

\* C6: processing any sequenced message completes without raising; a message
\* of an unknown type or with a path that does not resolve is dropped.
IngestNeverThrows ==
    \A r \in Replicas :
        HasNext(r)
        => /\ ~NextResult(r).threw
           /\ (NextMessage(r).contents.type \notin HandlerTypes \/ NextTarget(r) = NoNode)
                => NextResult(r).tree = nodes[r] /\ NextResult(r).events = << >>

\* tree with the marker that message left at position p removed
Acknowledged(tree, p, message) ==
    LET op == message.contents
        c == message.clientSequenceNumber
        node == tree[p]
    IN CASE op.type \in {"set", "delete"} ->
              IF op.key \in DOMAIN node.pendingKeys /\ node.pendingKeys[op.key] = c
              THEN [tree EXCEPT ![p].pendingKeys = Without(@, op.key)]
              ELSE tree
         [] op.type \in {"createSubDirectory", "deleteSubDirectory"} ->
              IF op.subdirName \in DOMAIN node.pendingSubDirectories
                    /\ node.pendingSubDirectories[op.subdirName] = c
              THEN [tree EXCEPT ![p].pendingSubDirectories = Without(@, op.subdirName)]
              ELSE tree
         [] OTHER ->
              IF node.pendingClearClientSequenceNumber = c
              THEN [tree EXCEPT ![p].pendingClearClientSequenceNumber = NoSeq]
              ELSE tree

\* C7: processing the echo of a local set, delete, clear, createSubDirectory
\* or deleteSubDirectory never changes storage or the child map and fires no
\* event; at most it removes the marker carrying the echo's number.
EchoIsNoOp ==
    \A r \in Replicas :
        (HasNext(r) /\ NextLocal(r) /\ NextMessage(r).contents.type \in StructuralTypes)
        => /\ NextResult(r).events = << >>
           /\ ~NextResult(r).threw
           /\ \/ NextResult(r).tree = nodes[r]
              \/ /\ NextTarget(r) # NoNode
                 /\ NextResult(r).tree =
                        Acknowledged(nodes[r], NextTarget(r), NextMessage(r))

\* C7 witness: a replica has processed the echo of its own clear of a node
\* into which it had set a key after the clear; the key is still there.
EchoIsNoOpWitness ==
    \E r \in Replicas, p \in Positions :
        /\ delivered[r] >= 1
        /\ p \in DOMAIN nodes[r]
        /\ LET echo == log[delivered[r]] IN
           /\ echo.clientId = r
           /\ echo.contents.type = "clear"
           /\ echo.contents.path = nodes[r][p].absolutePath
           /\ nodes[r][p].pendingClearClientSequenceNumber = NoSeq
           /\ \E key \in DOMAIN nodes[r][p].pendingKeys :
                /\ has(nodes[r][p], key)
                /\ nodes[r][p].pendingKeys[key] > echo.clientSequenceNumber

-----------------------------------------------------------------------------
(* Snapshot of the directory.  An IDirectoryDataObject is a function whose  *)
(* domain holds "storage" and "subdirectories" when the property is set.    *)

\* the names of the children of the node at position p
subdirectories(tree, p) == {q[Len(q)] : q \in {x \in DOMAIN tree : Len(x) = Len(p) + 1 /\ IsPrefix(p, x)}}

\* SubDirectory.getSerializableStorage raises when a stored local value is
\* undefined (makeSerializable is called on it)
getSerializableStorageThrows(node) ==
    \E key \in DOMAIN node.storage : node.storage[key] = Undefined

\* SubDirectory.getSerializableStorage (Empty stands for undefined)
getSerializableStorage(node) ==
    [key \in DOMAIN node.storage |-> makeSerializable(node.storage[key])]

RECURSIVE serializeSubDir(_, _)
\* the data object serialize fills for the node at position p
serializeSubDir(tree, p) ==
    LET subDirStorage == getSerializableStorage(tree[p])
        withStorage == IF subDirStorage # Empty
                       THEN With(Empty, "storage", subDirStorage) ELSE Empty
        names == subdirectories(tree, p)
    IN IF names = {} THEN withStorage
       ELSE With(withStorage, "subdirectories",
                 [subdirName \in names |-> serializeSubDir(tree, Append(p, subdirName))])

\* JSON.stringify / JSON.parse of a data object: the text is the object with
\* its unset properties left out
stringifyDataObject(data) == [json |-> [property \in DOMAIN data |-> data[property]]]
parseDataObject(text) == text.json

\* SharedDirectory.serialize
serialize(tree) ==
    [threw |-> \E p \in DOMAIN tree : getSerializableStorageThrows(tree[p]),
     ret |-> stringifyDataObject(serializeSubDir(tree, << >>))]

\* SubDirectory.populateStorage
populateStorage(tree, p, key, localValue) ==
    [tree EXCEPT ![p].storage = With(@, key, localValue)]

RECURSIVE populateKeys(_, _, _, _)
populateKeys(tree, p, storage, keys) ==
    IF keys = {} THEN tree
    ELSE LET key == CHOOSE k \in keys : TRUE IN
         populateKeys(populateStorage(tree, p, key,
                          makeLocal(key, tree[p].absolutePath, storage[key])),
                      p, storage, keys \ {key})

RECURSIVE populateSubDir(_, _, _, _)
\* populate's loop body for one data object and the children it names; the
\* directory being loaded is not attached, so nothing is sent (csn is NoSeq)
populateSubDir(tree, p, data, names) ==
    IF names # {}
    THEN LET subdirName == CHOOSE n \in names : TRUE
             created == createSubDirectory(tree, p, subdirName, NoSeq).tree
             child == data["subdirectories"][subdirName]
             q == Append(p, subdirName)
             below == populateSubDir(created, q, child,
                         IF "subdirectories" \in DOMAIN child
                         THEN DOMAIN child["subdirectories"] ELSE {})
         IN populateSubDir(below, p, data, names \ {subdirName})
    ELSE IF "storage" \in DOMAIN data
         THEN populateKeys(tree, p, data["storage"], DOMAIN data["storage"])
         ELSE tree

\* SharedDirectory.populate on a new directory
populate(data) ==
    populateSubDir((<< >> :> SubDirectory(sep)), << >>, data,
        IF "subdirectories" \in DOMAIN data THEN DOMAIN data["subdirectories"] ELSE {})

\* C8: serialize() of every reachable directory succeeds and populating a
\* new directory with JSON.parse of it gives the same tree shape, the same
\* keys and the same values.
SnapshotRoundTrip ==
    \A r \in Replicas :
        /\ ~serialize(nodes[r]).threw
        /\ LET restored == populate(parseDataObject(serialize(nodes[r]).ret)) IN
           /\ DOMAIN restored = DOMAIN nodes[r]
           /\ \A p \in DOMAIN restored :
                /\ restored[p].storage = nodes[r][p].storage
                /\ restored[p].absolutePath = nodes[r][p].absolutePath

-----------------------------------------------------------------------------
(* Properties of the map snapshot *)

Header == snap.tree[read(snap.tree, snapshotFileName)]
AuxiliaryBlobs == {j \in 1..Len(snap.tree) : snap.tree[j].path # snapshotFileName}
\* the blobs of the tree whose content holds the key
BlobsHolding(key) == {j \in 1..Len(snap.tree) : key \in DOMAIN snap.tree[j].content}

\* C9: in the tree snapshot() returns every key of the map is in exactly one
\* blob (with its type and value), the header's blobs array lists exactly
\* the auxiliary blobs, and loading the header content and then every listed
\* blob restores the same entries.
ChunkingLaw ==
    snap.pc # "created"
    => /\ \A i \in 1..Len(mapData) :
            /\ Cardinality(BlobsHolding(mapData[i].key)) = 1
            /\ \A j \in BlobsHolding(mapData[i].key) :
                    snap.tree[j].content[mapData[i].key]
                        = Property(mapData[i].type, jsonParse(mapData[i].value))
       /\ \A j \in 1..Len(snap.tree) :
            DOMAIN snap.tree[j].content \subseteq {mapData[i].key : i \in 1..Len(mapData)}
       /\ Cardinality({j \in 1..Len(snap.tree) : snap.tree[j].path = snapshotFileName}) = 1
       /\ Header.hasBlobs
       /\ Len(Header.blobs) = Cardinality(AuxiliaryBlobs)
       /\ {Header.blobs[i] : i \in 1..Len(Header.blobs)}
            = {snap.tree[j].path : j \in AuxiliaryBlobs}
       /\ Cardinality({snap.tree[j].path : j \in AuxiliaryBlobs}) = Cardinality(AuxiliaryBlobs)
       /\ snap.pc = "loaded" => getSerializedStorage(loaded) = Entries(mapData)

\* C9 witness: a map whose snapshot has a blob for one large value and a
\* rolling blob next to the header content has been loaded back.
ChunkingLawWitness ==
    /\ snap.pc = "loaded"
    /\ Len(mapData) = MaxEntries
    /\ Len(Header.blobs) >= 2
    /\ Header.content # Empty
    /\ \E j \in AuxiliaryBlobs, i \in 1..Len(mapData) :
            /\ DOMAIN snap.tree[j].content = {mapData[i].key}
            /\ separateBlob(mapData[i])
    /\ \E j \in AuxiliaryBlobs, i \in 1..Len(mapData) :
            /\ mapData[i].key \in DOMAIN snap.tree[j].content
            /\ ~separateBlob(mapData[i])

S3Large == CHOOSE i \in 1..Len(mapData) : mapData[i].value.length >= LargeLength

\* C10: for the map of S3 (ten 2 KiB values and one 20 KiB value) snapshot()
\* writes two auxiliary blobs, the 20 KiB value alone in one and the first
\* seven 2 KiB entries in one rolling blob; the header lists these two and
\* its content holds the other three entries; loading gives all 11 entries.
S3TwoBlobs ==
    (mapData \in ScenarioMaps /\ snap.pc # "created")
    => /\ Len(Header.blobs) = 2
       /\ \E j \in AuxiliaryBlobs : DOMAIN snap.tree[j].content = {mapData[S3Large].key}
       /\ \E j \in AuxiliaryBlobs :
            /\ Cardinality(DOMAIN snap.tree[j].content) = 7
            /\ mapData[S3Large].key \notin DOMAIN snap.tree[j].content
       /\ Cardinality(DOMAIN Header.content) = 3
       /\ snap.pc = "loaded"
            => /\ getSerializedStorage(loaded) = Entries(mapData)
               /\ Cardinality(DOMAIN loaded) = 11

\* C10 witness: the snapshot of a map of S3 has been loaded back.
S3TwoBlobsWitness ==
    /\ mapData \in ScenarioMaps
    /\ snap.pc = "loaded"
    /\ Cardinality(DOMAIN loaded) = 11

\* C10 as the scenario states it: the header of S3's snapshot lists three
\* blobs, and loading gives all 11 entries.
S3ThreeBlobs ==
    (mapData \in ScenarioMaps /\ snap.pc # "created")
    => /\ Len(Header.blobs) = 3
       /\ snap.pc = "loaded"
            => /\ getSerializedStorage(loaded) = Entries(mapData)
               /\ Cardinality(DOMAIN loaded) = 11

-----------------------------------------------------------------------------
(* Properties of path resolution *)

\* the components a path is written with
PathParts == {"a", "b", ".", "..", ""}
\* a path has at most MaxPathLen components
MaxPathLen == 3
PathStrings ==
    {PathString(absolute, parts) :
        absolute \in BOOLEAN,
        parts \in UNION {[1..n -> PathParts] : n \in 0..MaxPathLen}}

\* C11: for every path, relative or absolute, with "." and ".." components,
\* getWorkingDirectory of the path and getWorkingDirectory of its absolute
\* form resolved against the root give the same node or both undefined, and
\* getWorkingDirectory("/") is the root.
PathLaw ==
    \A r \in TreeReplicas :
        /\ \A path \in PathStrings :
              SharedDirectory_getWorkingDirectory(nodes[r], path)
                = SharedDirectory_getWorkingDirectory(nodes[r],
                        PathString(TRUE, posixResolve(sep, path)))
        /\ SharedDirectory_getWorkingDirectory(nodes[r], PathString(TRUE, << >>)) = << >>
        /\ SharedDirectory_getWorkingDirectory(nodes[r], PathString(TRUE, <<"">>)) = << >>

\* C11 witness: in a tree with /a/b a relative path through ".." leads to a
\* subdirectory and another path leads nowhere.
PathLawWitness ==
    \E r \in TreeReplicas :
        /\ <<"a", "b">> \in DOMAIN nodes[r]
        /\ \E path \in PathStrings :
              /\ ~path.absolute
              /\ \E i \in 1..Len(path.parts) : path.parts[i] = ".."
              /\ SharedDirectory_getWorkingDirectory(nodes[r], path) = <<"a", "b">>
        /\ \E path \in PathStrings :
              SharedDirectory_getWorkingDirectory(nodes[r], path) = NoNode

\* scenario S4: root.createSubDirectory("a").createSubDirectory("b").set(k, v)
S4(r) ==
    /\ Len(log) = 3
    /\ \A i \in 1..3 : log[i].clientId = r
    /\ log[1].contents = createSubDirectoryOp(sep, "a")
    /\ log[2].contents = createSubDirectoryOp(<<"a">>, "b")
    /\ log[3].contents.type = "set"
    /\ log[3].contents.path = <<"a", "b">>

\* C12: getWorkingDirectory called on a node of the tree gives the node at
\* resolve(node.absolutePath, path), and undefined exactly when a component
\* of the resolved path names a missing child; in S4 the key is read back
\* through "/a/b" and through "a" then "b", and "/a/c" is undefined.
PathResolution ==
    \A r \in TreeReplicas :
        /\ \A p \in DOMAIN nodes[r], path \in PathStrings :
              LET target == posixResolve(nodes[r][p].absolutePath, path)
                  result == SubDirectory_getWorkingDirectory(nodes[r], p, path)
                  missing == \E i \in 1..Len(target) :
                                SubSeq(target, 1, i) \notin DOMAIN nodes[r]
              IN /\ missing <=> result = NoNode
                 /\ ~missing => /\ result = target
                                /\ nodes[r][result].absolutePath = target
        /\ S4(r) =>
              LET tree == nodes[r]
                  direct == SharedDirectory_getWorkingDirectory(tree,
                                PathString(TRUE, <<"a", "b">>))
                  a == SharedDirectory_getWorkingDirectory(tree, PathString(FALSE, <<"a">>))
                  b == SubDirectory_getWorkingDirectory(tree, a, PathString(FALSE, <<"b">>))
              IN /\ direct # NoNode /\ a # NoNode /\ b # NoNode
                 /\ get(tree[direct], log[3].contents.key)
                        = fromSerializable(log[3].contents.value)
                 /\ get(tree[b], log[3].contents.key)
                        = fromSerializable(log[3].contents.value)
                 /\ SharedDirectory_getWorkingDirectory(tree,
                        PathString(TRUE, <<"a", "c">>)) = NoNode

\* C12 witness: the state of S4, with the key in /a/b.
PathResolutionWitness ==
    \E r \in TreeReplicas :
        /\ S4(r)
        /\ <<"a", "b">> \in DOMAIN nodes[r]
        /\ has(nodes[r][<<"a", "b">>], log[3].contents.key)

-----------------------------------------------------------------------------
(* Properties of the local calls *)

\* the number the submit function returns to replica r now
NextNumber(r) == submitLocalMessage(r)

\* C13: deleteSubDirectory(name) returns true exactly when the child exists,
\* makes the child's path and every path below it resolve to undefined, also
\* after the name is created again (the new child is empty), emits no event,
\* submits one deleteSubDirectory operation in both cases, and leaves every
\* node outside the subtree as it was but for the parent's pending marker.
DeleteSubtree ==
    \A r \in TreeReplicas : \A p \in DOMAIN nodes[r], subdirName \in TreeNames :
        LET tree == nodes[r]
            child == Append(p, subdirName)
            result == deleteSubDirectory(tree, p, subdirName, NextNumber(r))
            again == createSubDirectory(result.tree, p, subdirName, NextNumber(r)).tree
        IN /\ result.ret = (child \in DOMAIN tree)
           /\ ~result.threw
           /\ result.events = << >>
           /\ result.ops = <<deleteSubDirectoryOp(tree[p].absolutePath, subdirName)>>
           /\ \A q \in DOMAIN tree \cup TreePositions :
                IF IsPrefix(child, q)
                THEN /\ getWorkingDirectory(result.tree, q) = NoNode
                     /\ q # child => getWorkingDirectory(again, q) = NoNode
                ELSE /\ q \in DOMAIN tree <=> q \in DOMAIN result.tree
                     /\ q \in DOMAIN tree /\ q # p => result.tree[q] = tree[q]
           /\ result.tree[p].storage = tree[p].storage
           /\ result.tree[p].pendingKeys = tree[p].pendingKeys
           /\ getWorkingDirectory(again, child) = child
           /\ again[child] = SubDirectory(posixJoin(tree[p].absolutePath, subdirName))

\* C13 witness: /a with a key-holding child /a/b was created and then deleted
\* by deleteSubDirectory("a") on the root, which is sent and not yet echoed.
DeleteSubtreeWitness ==
    \E r \in TreeReplicas :
        /\ Len(log) = 3
        /\ \A i \in 1..3 : log[i].clientId = r
        /\ log[1].contents = createSubDirectoryOp(sep, "a")
        /\ log[2].contents = createSubDirectoryOp(<<"a">>, "b")
        /\ log[3].contents = deleteSubDirectoryOp(sep, "a")
        /\ DOMAIN nodes[r] = {<< >>}
        /\ "a" \in DOMAIN nodes[r][<< >>].pendingSubDirectories
        /\ nodes[r][<< >>].pendingSubDirectories["a"] = log[3].clientSequenceNumber

\* C14: createSubDirectory with a name that holds the separator raises, and
\* then no child is created, nothing is submitted and no marker is recorded:
\* the whole tree is as before; any other name does not raise.
RejectInvalidName ==
    \A r \in TreeReplicas : \A p \in DOMAIN nodes[r] :
        /\ \A subdirName \in BadNames :
              LET result == createSubDirectory(nodes[r], p, subdirName, NextNumber(r)) IN
              /\ result.threw
              /\ result.tree = nodes[r]
              /\ result.ops = << >>
              /\ result.events = << >>
        /\ \A subdirName \in TreeNames :
              ~createSubDirectory(nodes[r], p, subdirName, NextNumber(r)).threw

\* C14 witness: a connected replica whose node /a has a child and a pending
\* marker can still call createSubDirectory, and does so with a bad name.
RejectInvalidNameWitness ==
    \E r \in TreeReplicas :
        /\ connected[r]
        /\ TreeOps(r) < MaxTreeOps
        /\ <<"a", "b">> \in DOMAIN nodes[r]
        /\ nodes[r][<<"a">>].pendingSubDirectories # Empty
        /\ \E subdirName \in BadNames :
              createSubDirectory(nodes[r], <<"a">>, subdirName, NextNumber(r)).threw

\* C15: a local set(key, v) on any node of any replica completes, and
\* immediately afterwards get(key) on that node returns v and has(key) is
\* true, whether or not the replica is connected and whatever markers the
\* node holds.
ReadYourWrite ==
    \A r \in Replicas : \A p \in DOMAIN nodes[r] : \A key \in Keys, v \in PlainValues :
        LET result == set(nodes[r], p, key, v, "Plain", NextNumber(r)) IN
        /\ ~result.threw
        /\ has(result.tree[p], key)
        /\ ~getThrows(result.tree[p], key)
        /\ get(result.tree[p], key) = fromInMemory(v)

\* numbers the submit function has returned to replica r so far
Assigned(r) == 1..clientSeq[r]

\* C16: every client-sequence-number held in pendingKeys, in
\* pendingSubDirectories or as the pending clear of a node is a number the
\* submit function returned to that replica: never -1 and never above the
\* number assigned last.
PendingMarkersBounded ==
    \A r \in TreeReplicas : \A p \in DOMAIN nodes[r] :
        LET node == nodes[r][p] IN
        /\ \A key \in DOMAIN node.pendingKeys : node.pendingKeys[key] \in Assigned(r)
        /\ \A subdirName \in DOMAIN node.pendingSubDirectories :
              node.pendingSubDirectories[subdirName] \in Assigned(r)
        /\ node.pendingClearClientSequenceNumber # NoSeq
              => node.pendingClearClientSequenceNumber \in Assigned(r)

\* C16 witness: a disconnected replica that holds a pending key marker from
\* before the disconnection has made a call whose submission returned -1.
PendingMarkersBoundedWitness ==
    \E r \in TreeReplicas :
        /\ ~connected[r]
        /\ unsent[r] # << >>
        /\ unsent[r][1].type \in {"set", "delete"}
        /\ \E p \in DOMAIN nodes[r] : nodes[r][p].pendingKeys # Empty

-----------------------------------------------------------------------------
(* Properties of processing twice *)

\* C17: processing a remote set, delete, clear, createSubDirectory or
\* deleteSubDirectory message a second time, right after the first, leaves
\* the tree, every storage and every pending map as the first left them.
IdempotentReapply ==
    \A r \in Replicas :
        (/\ HasNext(r) /\ ~NextLocal(r)
         /\ NextMessage(r).contents.type \in StructuralTypes)
        => processCore(NextResult(r).tree, NextMessage(r), FALSE).tree
              = NextResult(r).tree

\* C17 witness: a remote set is next at a replica whose target node holds no
\* marker, so that processing it once changes the storage.
IdempotentReapplyWitness ==
    \E r \in Replicas :
        /\ HasNext(r) /\ ~NextLocal(r)
        /\ NextMessage(r).contents.type = "set"
        /\ NextTarget(r) # NoNode
        /\ NoPending(nodes[r][NextTarget(r)])
        /\ NextResult(r).tree # nodes[r]

-----------------------------------------------------------------------------
(* Properties of the local calls on subdirectories and keys *)

\* C18: createSubDirectory(name) on a node that has the child returns that
\* child and leaves the child, everything below it and every other node
\* but the parent's marker for the name as they were; on a node that has
\* no such child it creates an empty child and returns it.  Either way one
\* createSubDirectory operation is submitted.
CreateSubDirectoryIdempotent ==
    \A r \in TreeReplicas : \A p \in DOMAIN nodes[r] : \A subdirName \in TreeNames :
        LET tree == nodes[r]
            q == Append(p, subdirName)
            result == createSubDirectory(tree, p, subdirName, NextNumber(r))
        IN /\ ~result.threw
           /\ result.ret = q
           /\ q \in DOMAIN result.tree
           /\ result.ops = <<createSubDirectoryOp(tree[p].absolutePath, subdirName)>>
           /\ result.events = << >>
           /\ \A x \in DOMAIN tree \ {p} : result.tree[x] = tree[x]
           /\ result.tree[p].storage = tree[p].storage
           /\ result.tree[p].pendingKeys = tree[p].pendingKeys
           /\ result.tree[p].pendingClearClientSequenceNumber
                 = tree[p].pendingClearClientSequenceNumber
           /\ \A name \in DOMAIN result.tree[p].pendingSubDirectories \ {subdirName} :
                 /\ name \in DOMAIN tree[p].pendingSubDirectories
                 /\ result.tree[p].pendingSubDirectories[name]
                       = tree[p].pendingSubDirectories[name]
           /\ q \in DOMAIN tree => DOMAIN result.tree = DOMAIN tree
           /\ q \notin DOMAIN tree
                 => /\ DOMAIN result.tree = DOMAIN tree \cup {q}
                    /\ result.tree[q] = SubDirectory(posixJoin(tree[p].absolutePath,
                                                               subdirName))
                    /\ subdirectories(result.tree, q) = {}

\* C18 witness: createSubDirectory("a") was called on the root when /a
\* already existed and held a key; /a still holds the key.
CreateSubDirectoryIdempotentWitness ==
    \E r \in TreeReplicas :
        /\ Len(log) = 3
        /\ log[1].contents.type = "createSubDirectory"
        /\ log[1].contents.subdirName = "a" /\ log[1].contents.path = sep
        /\ log[2].contents.type = "set" /\ log[2].contents.path # sep
        /\ log[3].contents = log[1].contents
        /\ <<"a">> \in DOMAIN nodes[r]
        /\ nodes[r][<<"a">>].storage # Empty
        /\ nodes[r][<< >>].pendingSubDirectories = ("a" :> log[3].clientSequenceNumber)

\* C19: delete(key) on any node completes, returns true exactly when the
\* node's storage held the key, leaves the key absent, and submits one delete
\* operation whether or not the key was held; a connected replica records
\* the assigned number as the key's pending marker.
DeleteReturnsPresence ==
    \A r \in Replicas : \A p \in DOMAIN nodes[r] : \A key \in Keys :
        LET tree == nodes[r]
            result == delete(tree, p, key, NextNumber(r))
        IN /\ ~result.threw
           /\ result.ret = has(tree[p], key)
           /\ ~has(result.tree[p], key)
           /\ result.ops = <<deleteOp(tree[p].absolutePath, key)>>
           /\ connected[r]
                 => /\ key \in DOMAIN result.tree[p].pendingKeys
                    /\ result.tree[p].pendingKeys[key] = NextNumber(r)

\* C20: clear() on a node empties that node's storage, submits one clear
\* operation and, on a connected replica, makes the assigned number the
\* node's pending clear; the set of nodes, every other node, and the node's
\* pendingKeys and pendingSubDirectories are as before.
LocalClearFrame ==
    \A r \in TreeReplicas : \A p \in DOMAIN nodes[r] :
        LET tree == nodes[r]
            result == clear(tree, p, NextNumber(r))
        IN /\ ~result.threw
           /\ result.tree[p].storage = Empty
           /\ result.ops = <<clearOp(tree[p].absolutePath)>>
           /\ result.tree[p].pendingClearClientSequenceNumber
                 = IF connected[r] THEN NextNumber(r)
                   ELSE tree[p].pendingClearClientSequenceNumber
           /\ DOMAIN result.tree = DOMAIN tree
           /\ \A x \in DOMAIN tree \ {p} : result.tree[x] = tree[x]
           /\ result.tree[p].pendingKeys = tree[p].pendingKeys
           /\ result.tree[p].pendingSubDirectories = tree[p].pendingSubDirectories
           /\ result.tree[p].absolutePath = tree[p].absolutePath

\* C20 witness: the root held a key and a child, both with their markers,
\* when clear() was called on it: the key is gone, the child and the two
\* markers are there, and the pending clear is the number of the clear.
LocalClearFrameWitness ==
    \E r \in TreeReplicas :
        /\ Len(log) = 3 /\ delivered[r] = 0
        /\ {log[1].contents.type, log[2].contents.type} = {"set", "createSubDirectory"}
        /\ \A i \in 1..3 : log[i].contents.path = sep /\ log[i].clientId = r
        /\ log[3].contents.type = "clear"
        /\ nodes[r][<< >>].storage = Empty
        /\ DOMAIN nodes[r][<< >>].pendingKeys = Keys
        /\ DOMAIN nodes[r][<< >>].pendingSubDirectories # {}
        /\ DOMAIN nodes[r] # {<< >>}
        /\ nodes[r][<< >>].pendingClearClientSequenceNumber = log[3].clientSequenceNumber

-----------------------------------------------------------------------------
(* Properties of wait *)

\* the node a waiter holds, in the current state
HeldNode(r, w) == WaiterNode(w, nodes[r])
\* the node holds a value for the waiter's key
HoldsValue(node, key) == has(node, key) /\ ~getThrows(node, key)

\* C21: wait(key) on a node that holds the key is resolved at once with the
\* stored value; a pending wait stays pending through every step that does
\* not set the key on its node, is resolved by the step that does, with the
\* value just set, and its listener is then removed; a settled wait is never
\* resolved again.
WaitResolves ==
    [][\A r \in Replicas :
          /\ \A p \in DOMAIN nodes[r] :
                has(nodes[r][p], WaitKey)
                => /\ wait(nodes[r], p, WaitKey).state = "resolved"
                   /\ wait(nodes[r], p, WaitKey).value = nodes[r][p].storage[WaitKey]
                   /\ wait(nodes[r], p, WaitKey).value # Undefined
          /\ \A i \in DOMAIN waiters[r] :
                LET w == waiters[r][i]
                    after == waiters'[r][i]
                    node == HeldNode(r, w)'
                IN IF w.state = "pending"
                   THEN /\ after.state \in {"pending", "resolved"}
                        /\ after.state = "resolved"
                             <=> (~HoldsValue(HeldNode(r, w), w.key)
                                    /\ HoldsValue(node, w.key))
                        /\ after.state = "resolved"
                             => /\ after.value = get(node, w.key)
                                /\ after.resolves = 1
                                /\ ~after.listening
                        /\ after.state = "pending" => after.listening
                   ELSE /\ after.state = w.state
                        /\ after.value = w.value
                        /\ after.resolves = w.resolves
                        /\ ~after.listening]_vars

-----------------------------------------------------------------------------
(* Properties of disconnection and resending *)

\* what onConnect would send for replica r, and the operations in it
Resent(r) == onConnect(nodes[r], unsent[r], clientSeq[r])
ResentOps(r) == [i \in 1..Len(Resent(r).sent) |-> Resent(r).sent[i].op]
\* the submit handler of the operation's type finds the node of its path
SubmitResolves(r, op) ==
    op.type = "act" \/ getWorkingDirectory(nodes[r], op.path) # NoNode

\* C22 (as stated): when a replica connects, the operations it resends are
\* exactly its pending operations, each once and in the original order,
\* also those whose path no longer names a subdirectory of its tree.
ResendsAll ==
    \A r \in TreeReplicas : ~connected[r] => ResentOps(r) = unsent[r]

\* C22 (amended): when a replica connects, the operations it resends are,
\* each once and in the original order, its pending act operations and its
\* pending operations whose path names a subdirectory of its tree; they get
\* consecutive client-sequence-numbers.  The others are not resent.
ResendsResolving ==
    \A r \in TreeReplicas :
        ~connected[r]
        => /\ ResentOps(r) = SelectSeq(unsent[r], LAMBDA op : SubmitResolves(r, op))
           /\ \A i \in 1..Len(Resent(r).sent) :
                 Resent(r).sent[i].clientSequenceNumber = clientSeq[r] + i

\* C22 witness: a replica that is not connected holds pending operations of
\* which the second names a subdirectory that is gone, between two that
\* will be resent.
ResendsResolvingWitness ==
    \E r \in TreeReplicas :
        /\ ~connected[r]
        /\ Len(unsent[r]) >= 3
        /\ SubmitResolves(r, unsent[r][1])
        /\ ~SubmitResolves(r, unsent[r][2])
        /\ SubmitResolves(r, unsent[r][3])
        /\ Len(ResentOps(r)) = Len(unsent[r]) - 1

\* the pending markers of every node of a tree, and the rest of the nodes
Markers(tree) ==
    [x \in DOMAIN tree |->
        [pendingKeys |-> tree[x].pendingKeys,
         pendingSubDirectories |-> tree[x].pendingSubDirectories,
         pendingClearClientSequenceNumber |-> tree[x].pendingClearClientSequenceNumber]]
Unmarked(tree) ==
    [x \in DOMAIN tree |->
        [absolutePath |-> tree[x].absolutePath, storage |-> tree[x].storage]]

\* a call whose submission returned -1: it does not raise, it changes the
\* storage and the tree as the same call does when a number is assigned,
\* it hands over one operation, and no marker of a node that stays is
\* added or changed
AppliedUnmarked(r, unattached, attached) ==
    /\ ~unattached.threw
    /\ Len(unattached.ops) = 1
    /\ Unmarked(unattached.tree) = Unmarked(attached.tree)
    /\ \A x \in DOMAIN unattached.tree :
          x \in DOMAIN nodes[r] => Markers(unattached.tree)[x] = Markers(nodes[r])[x]
    /\ \A x \in DOMAIN unattached.tree \ DOMAIN nodes[r] :
          NoPending(unattached.tree[x])

\* the marker of the slot an operation occupies at the node at position p
MarkerOf(tree, p, op) ==
    CASE op.type = "clear" -> tree[p].pendingClearClientSequenceNumber
      [] op.type \in {"set", "delete"} ->
            IF op.key \in DOMAIN tree[p].pendingKeys
            THEN tree[p].pendingKeys[op.key] ELSE NoSeq
      [] OTHER ->
            IF op.subdirName \in DOMAIN tree[p].pendingSubDirectories
            THEN tree[p].pendingSubDirectories[op.subdirName] ELSE NoSeq
SameSlot(op1, op2) ==
    /\ op1.path = op2.path
    /\ \/ op1.type = "clear" /\ op2.type = "clear"
       \/ op1.type \in {"set", "delete"} /\ op2.type \in {"set", "delete"}
             /\ op1.key = op2.key
       \/ /\ op1.type \in {"createSubDirectory", "deleteSubDirectory"}
          /\ op2.type \in {"createSubDirectory", "deleteSubDirectory"}
          /\ op1.subdirName = op2.subdirName

\* C23: on a replica that is not connected, set, delete, clear,
\* createSubDirectory and deleteSubDirectory do not raise, change the local
\* state as they do when connected and add or change no pending marker; when
\* the replica connects, each of these operations that is resent leaves,
\* at the node of its path, the marker of its key, name or clear equal to
\* its new client-sequence-number, or to that of a later resent operation
\* on the same key, name or clear.
UnattachedSubmit ==
    \A r \in TreeReplicas :
        ~connected[r]
        => /\ \A p \in DOMAIN nodes[r] :
                LET tree == nodes[r]
                    c == clientSeq[r] + 1
                IN /\ \A key \in Keys, input \in SetInputs(r) :
                         AppliedUnmarked(r, set(tree, p, key, input[1], input[2], NoSeq),
                                            set(tree, p, key, input[1], input[2], c))
                   /\ \A key \in Keys :
                         AppliedUnmarked(r, delete(tree, p, key, NoSeq),
                                            delete(tree, p, key, c))
                   /\ AppliedUnmarked(r, clear(tree, p, NoSeq), clear(tree, p, c))
                   /\ \A subdirName \in Names :
                         /\ AppliedUnmarked(r, createSubDirectory(tree, p, subdirName, NoSeq),
                                               createSubDirectory(tree, p, subdirName, c))
                         /\ AppliedUnmarked(r, deleteSubDirectory(tree, p, subdirName, NoSeq),
                                               deleteSubDirectory(tree, p, subdirName, c))
           /\ submitLocalMessage(r) = NoSeq
           /\ \A i \in 1..Len(Resent(r).sent) :
                 LET op == Resent(r).sent[i].op
                     later == {j \in i..Len(Resent(r).sent) :
                                  SameSlot(op, Resent(r).sent[j].op)}
                     last == CHOOSE j \in later : \A x \in later : x <= j
                 IN op.type # "act"
                    => MarkerOf(Resent(r).tree, getWorkingDirectory(nodes[r], op.path), op)
                          = Resent(r).sent[last].clientSequenceNumber

\* C23 witness: a replica that is not connected has set a key on /a; /a
\* holds the key and no marker, and connecting records the marker.
UnattachedSubmitWitness ==
    \E r \in TreeReplicas :
        /\ ~connected[r]
        /\ <<"a">> \in DOMAIN nodes[r]
        /\ \E i \in 1..Len(unsent[r]) :
              /\ unsent[r][i].type = "set"
              /\ unsent[r][i].path = <<"a">>
              /\ has(nodes[r][<<"a">>], unsent[r][i].key)
              /\ nodes[r][<<"a">>].pendingKeys = Empty
              /\ MarkerOf(Resent(r).tree, <<"a">>, unsent[r][i]) > clientSeq[r]

-----------------------------------------------------------------------------
(* Properties of the key argument *)

\* keys that are not valid: the empty string, and a value that is not a
\* string ("<undefined>" stands for any such value)
InvalidKeys == {"", "<undefined>"}

\* C24: set and delete called with a key that is not valid raise, and the
\* tree, its storage, its pending maps and the submitted operations are as
\* before.
InvalidKeyRejected ==
    \A r \in TreeReplicas : \A p \in DOMAIN nodes[r] : \A key \in InvalidKeys :
        /\ \A v \in PlainValues :
              LET result == set(nodes[r], p, key, v, "Plain", NextNumber(r)) IN
              result.threw /\ result.tree = nodes[r] /\ result.ops = << >>
        /\ LET result == delete(nodes[r], p, key, NextNumber(r)) IN
           result.threw /\ result.tree = nodes[r] /\ result.ops = << >>

-----------------------------------------------------------------------------
(* Properties of SharedMap.loadCore *)

RECURSIVE populateAll(_, _, _)
\* the kernel after the blobs named in names are populated in that order
populateAll(data, tree, names) ==
    IF names = << >> THEN data
    ELSE populateAll(populateFromSerializable(data, tree[read(tree, Head(names))].content),
                     tree, Tail(names))

\* C25: when the header has a blobs array, loadCore populates the header's
\* content at once and then each listed blob as its read completes, and when
\* all reads are done the entries are the same whatever the order was; when
\* the header has no blobs array the whole header body is populated as one
\* data object and nothing else is read.
RestoreDispatch ==
    snap.pc \in {"reading", "loaded"}
    => IF Header.hasBlobs
       THEN /\ \A i \in 1..Len(Header.blobs) \ snap.toRead :
                  \A key \in DOMAIN snap.tree[read(snap.tree, Header.blobs[i])].content :
                      key \in DOMAIN loaded
            /\ \A key \in DOMAIN Header.content : key \in DOMAIN loaded
            /\ \A key \in DOMAIN loaded :
                  \/ key \in DOMAIN Header.content
                  \/ \E i \in 1..Len(Header.blobs) \ snap.toRead :
                        key \in DOMAIN snap.tree[read(snap.tree, Header.blobs[i])].content
            /\ snap.pc = "loaded"
                  => /\ snap.toRead = {}
                     /\ loaded = populateAll(Header.content, snap.tree, Header.blobs)
       ELSE /\ snap.pc = "loaded"
            /\ snap.toRead = {}
            /\ loaded = Header.content
            /\ getSerializedStorage(loaded) = Entries(mapData)

\* C25 witness: the header lists two blobs and the second was read first.
RestoreDispatchWitness ==
    /\ snap.pc = "reading"
    /\ Header.hasBlobs
    /\ Len(Header.blobs) = 2
    /\ snap.toRead = {1}
    /\ Header.content # Empty

------------------------------------------------------------------------------
(* Properties of absolutePath *)

\* the replica submits at most MaxNameOps operations
MaxNameOps == 3

\* The name specification: one replica creates and deletes subdirectories
\* down to depth two, under an ordinary name and under the names "", "."
\* and "..", which hold no separator, and sets a key in them.
NextNames ==
    LET names == {"a", "", ".", ".."} IN
    \/ \E r \in TreeReplicas, subdirName \in names :
          \E p \in {<< >>} \cup {<<n>> : n \in names} :
             /\ Len(log) < MaxNameOps
             /\ p \in DOMAIN nodes[r]
             /\ Local(r, createSubDirectory(nodes[r], p, subdirName, submitLocalMessage(r)))
    \/ \E r \in TreeReplicas, subdirName \in names :
          \E p \in {<< >>} \cup {<<n>> : n \in names} :
             /\ Len(log) < MaxNameOps
             /\ Append(p, subdirName) \in DOMAIN nodes[r]
             /\ Local(r, deleteSubDirectory(nodes[r], p, subdirName, submitLocalMessage(r)))
    \/ \E r \in TreeReplicas, key \in Keys :
          \E p \in DOMAIN nodes[r] :
             Len(log) < MaxNameOps /\ LocalSet(r, p, key, <<r, "Plain">>)

SpecNames == Init /\ [][NextNames]_vars

\* C26: in every reachable state the absolutePath of every node reachable
\* from the root through children is the child names on the way to it, joined
\* with the separator from the root, and the root's absolutePath is "/".
AbsolutePathInvariant ==
    \A r \in Replicas :
        /\ nodes[r][<< >>].absolutePath = sep
        /\ \A p \in DOMAIN nodes[r] : nodes[r][p].absolutePath = p

------------------------------------------------------------------------------
(* Properties of remote key operations on a node without pending markers *)

\* C27: on a node that holds no pending marker the remote set, delete and
\* clear messages addressed to it apply one after the other, the last one
\* winning: a remote set of k leaves has(k) true and get(k) the value set, a
\* remote delete of k leaves has(k) false, a remote clear leaves no key, no
\* other key changes and no marker appears, so that after any sequence of
\* them has(k) holds exactly when the last message affecting k is a set, and
\* get(k) is then its value.
LastWriterWins ==
    \A r \in Replicas :
        (HasNext(r) /\ ~NextLocal(r)
            /\ NextMessage(r).contents.type \in {"set", "delete", "clear"}
            /\ NextTarget(r) # NoNode
            /\ NoPending(nodes[r][NextTarget(r)]))
        => LET p == NextTarget(r)
               op == NextMessage(r).contents
               node == nodes[r][p]
               after == NextResult(r).tree[p]
           IN /\ ~NextResult(r).threw
              /\ NoPending(after)
              /\ op.type = "set"
                    => /\ has(after, op.key)
                       /\ ~getThrows(after, op.key)
                       /\ get(after, op.key) = fromSerializable(op.value)
                       /\ Without(after.storage, op.key) = Without(node.storage, op.key)
              /\ op.type = "delete"
                    => /\ ~has(after, op.key)
                       /\ after.storage = Without(node.storage, op.key)
              /\ op.type = "clear" => after.storage = Empty

------------------------------------------------------------------------------
(* Properties of the snapshot's partition *)

RECURSIVE estimate(_, _)
\* the size estimate of the properties of a blob's content under the keys
\* given: type length, property header cost and value length of each
estimate(content, keys) ==
    IF keys = {} THEN 0
    ELSE LET key == CHOOSE key \in keys : TRUE IN
         TypeLength(content[key].type) + PropertyHeaderCost
            + (IF content[key].value.hasValue THEN content[key].value.object ELSE 0)
            + estimate(content, keys \ {key})

\* an auxiliary blob written for one property of at least 8 KiB
IsSeparateBlob(blob) ==
    /\ ~blob.hasBlobs
    /\ Cardinality(DOMAIN blob.content) = 1
    /\ \A key \in DOMAIN blob.content :
          /\ blob.content[key].value.hasValue
          /\ blob.content[key].value.object >= MinValueSizeSeparateSnapshotBlob

\* C28: in the tree snapshot() produces, the size estimate of every rolling
\* chunk written as blob<N> and of the content of the final header is at
\* most MaxSnapshotBlobSize.
ChunkSizeBound ==
    snap.pc = "stored"
    => \A i \in 1..Len(snap.tree) :
          ~IsSeparateBlob(snap.tree[i])
          => estimate(snap.tree[i].content, DOMAIN snap.tree[i].content)
                <= MaxSnapshotBlobSize

\* the state of snapshot's loop after the first i entries of the data
LoopState(data, i) ==
    snapshotLoop([currentSize |-> 0, counter |-> 0, headerBlob |-> Empty,
                  blobs |-> << >>, tree |-> << >>], SubSeq(data, 1, i))

\* the entry is at least 8 KiB long in its serialized form
Oversized(value) ==
    value.value.defined /\ value.value.length >= MinValueSizeSeparateSnapshotBlob

------------------------------------------------------------------------------
(* Properties of a pending clear against remote clear and act *)

\* C30: while a node has an unacknowledged local clear, processing a remote
\* clear or a remote act addressed to it raises nothing, leaves the node's
\* storage and markers as they are and emits no event; and whatever message
\* is processed, the clear marker of a node changes only when the message is
\* the replica's own and carries the marker's client sequence number.
PendingClearIgnoresAll ==
    \A r \in Replicas :
        HasNext(r)
        => /\ (~NextLocal(r)
                  /\ NextMessage(r).contents.type \in {"clear", "act"}
                  /\ NextTarget(r) # NoNode
                  /\ nodes[r][NextTarget(r)].pendingClearClientSequenceNumber # NoSeq)
              => /\ ~NextResult(r).threw
                 /\ NextResult(r).events = << >>
                 /\ NextResult(r).tree = nodes[r]
           /\ \A p \in DOMAIN nodes[r] \cap DOMAIN NextResult(r).tree :
                 LET marker == nodes[r][p].pendingClearClientSequenceNumber IN
                 (marker # NoSeq
                     /\ NextResult(r).tree[p].pendingClearClientSequenceNumber # marker)
                 => /\ NextLocal(r)
                    /\ NextMessage(r).clientSequenceNumber = marker

------------------------------------------------------------------------------
(* Properties of the reconciliation of subdirectory operations *)

SubDirectoryTypes == {"createSubDirectory", "deleteSubDirectory"}

\* C31: processing a createSubDirectory or deleteSubDirectory message for a
\* name n at a node emits nothing and does not raise; while the node's
\* pendingSubDirectories holds n the tree stays as it is, remote or local,
\* and the entry is erased exactly when the message is local and carries
\* the stored number; with no entry a local message changes nothing, a
\* remote create adds an empty child if there is none and a remote delete
\* removes the child with what is below it.  No other message erases or
\* changes an entry of a node that stays.
SubDirectoryReconciliation ==
    \A r \in Replicas :
        HasNext(r)
        => /\ (NextMessage(r).contents.type \in SubDirectoryTypes /\ NextTarget(r) # NoNode)
              => LET p == NextTarget(r)
                     op == NextMessage(r).contents
                     n == op.subdirName
                     child == Append(p, n)
                     tree == nodes[r]
                     pending == tree[p].pendingSubDirectories
                     result == NextResult(r)
                 IN /\ ~result.threw
                    /\ result.events = << >>
                    /\ IF n \in DOMAIN pending
                       THEN /\ Unmarked(result.tree) = Unmarked(tree)
                            /\ n \notin DOMAIN result.tree[p].pendingSubDirectories
                                 <=> (NextLocal(r)
                                        /\ NextMessage(r).clientSequenceNumber = pending[n])
                       ELSE /\ Markers(result.tree)
                                 = [x \in DOMAIN result.tree |->
                                       IF x \in DOMAIN tree THEN Markers(tree)[x]
                                       ELSE Markers(result.tree)[x]]
                            /\ NextLocal(r) => result.tree = tree
                            /\ (~NextLocal(r) /\ op.type = "createSubDirectory")
                                 => /\ DOMAIN result.tree = DOMAIN tree \cup {child}
                                    /\ \A x \in DOMAIN tree : result.tree[x] = tree[x]
                                    /\ child \notin DOMAIN tree
                                         => result.tree[child]
                                               = SubDirectory(posixJoin(tree[p].absolutePath, n))
                            /\ (~NextLocal(r) /\ op.type = "deleteSubDirectory")
                                 => /\ DOMAIN result.tree
                                         = {x \in DOMAIN tree : ~IsPrefix(child, x)}
                                    /\ \A x \in DOMAIN result.tree : result.tree[x] = tree[x]
           /\ \A p \in DOMAIN nodes[r] \cap DOMAIN NextResult(r).tree :
                 \A n \in DOMAIN nodes[r][p].pendingSubDirectories :
                    LET after == NextResult(r).tree[p].pendingSubDirectories IN
                    IF NextLocal(r) /\ NextMessage(r).contents.type \in SubDirectoryTypes
                          /\ NextTarget(r) = p /\ NextMessage(r).contents.subdirName = n
                          /\ NextMessage(r).clientSequenceNumber
                                = nodes[r][p].pendingSubDirectories[n]
                    THEN n \notin DOMAIN after
                    ELSE n \in DOMAIN after /\ after[n] = nodes[r][p].pendingSubDirectories[n]

\* C31 witness: a replica that created a child and holds the marker for its
\* name is about to process a remote deleteSubDirectory of that name.
SubDirectoryReconciliationWitness ==
    \E r \in Replicas :
        /\ HasNext(r) /\ ~NextLocal(r)
        /\ NextMessage(r).contents.type = "deleteSubDirectory"
        /\ NextTarget(r) # NoNode
        /\ NextMessage(r).contents.subdirName
              \in DOMAIN nodes[r][NextTarget(r)].pendingSubDirectories
        /\ Append(NextTarget(r), NextMessage(r).contents.subdirName) \in DOMAIN nodes[r]

------------------------------------------------------------------------------
(* Properties of the key marker under several local writes *)

\* the log of the marker specification holds at most MaxMarkerOps messages
MaxMarkerOps == 4

\* The marker specification: one replica sets and deletes the keys of the
\* root and processes the log; the other replica sets, deletes and clears.
NextMarker ==
    \/ \E key \in Keys, v \in PlainValues :
          Len(log) < MaxMarkerOps /\ LocalSet(WaitReplica, << >>, key, <<v, "Plain">>)
    \/ \E key \in Keys :
          Len(log) < MaxMarkerOps /\ LocalDelete(WaitReplica, << >>, key)
    \/ \E r \in Replicas \ {WaitReplica}, key \in Keys :
          Len(log) < MaxMarkerOps /\ LocalSet(r, << >>, key, <<r, "Plain">>)
    \/ \E r \in Replicas \ {WaitReplica}, key \in Keys :
          Len(log) < MaxMarkerOps /\ LocalDelete(r, << >>, key)
    \/ \E r \in Replicas \ {WaitReplica} :
          Len(log) < MaxMarkerOps /\ LocalClear(r, << >>)
    \/ Process(WaitReplica)

SpecMarker == Init /\ [][NextMarker]_vars

\* the log indices of replica r's set and delete messages on the key
KeyWrites(r, key) ==
    {i \in 1..Len(log) : /\ log[i].clientId = r
                         /\ log[i].contents.type \in {"set", "delete"}
                         /\ log[i].contents.path = sep
                         /\ log[i].contents.key = key}
LastKeyWrite(r, key) ==
    CHOOSE i \in KeyWrites(r, key) : \A j \in KeyWrites(r, key) : j <= i

\* C32: the pendingKeys entry of a key holds the client sequence number of
\* the replica's last local set or delete of it from the call until the echo
\* of that last one is processed: the echoes of the earlier ones leave it,
\* the echo of the last one removes it, and every remote set or delete of
\* the key processed before that is ignored.
LatestWriteOwnsMarker ==
    \A key \in Keys :
        LET r == WaitReplica
            root == nodes[r][<< >>]
        IN IF KeyWrites(r, key) # {} /\ delivered[r] < LastKeyWrite(r, key)
           THEN /\ key \in DOMAIN root.pendingKeys
                /\ root.pendingKeys[key] = log[LastKeyWrite(r, key)].clientSequenceNumber
                /\ (HasNext(r) /\ ~NextLocal(r)
                       /\ NextMessage(r).contents.type \in {"set", "delete"}
                       /\ NextMessage(r).contents.key = key)
                   => /\ NextResult(r).tree = nodes[r]
                      /\ NextResult(r).events = << >>
                      /\ ~NextResult(r).threw
           ELSE key \notin DOMAIN root.pendingKeys

\* C32 witness: the replica wrote the key twice before any echo; the echo of
\* the first write is processed, the marker holds the number of the second,
\* and a remote set of the key sequenced between the two is next.
LatestWriteOwnsMarkerWitness ==
    \E key \in Keys :
        /\ Cardinality(KeyWrites(WaitReplica, key)) = 2
        /\ 1 \in KeyWrites(WaitReplica, key)
        /\ delivered[WaitReplica] = 1
        /\ LastKeyWrite(WaitReplica, key) = 3
        /\ clientSeq[WaitReplica] = 2
        /\ log[2].clientId # WaitReplica
        /\ log[2].contents.type = "set"
        /\ log[2].contents.key = key
        /\ nodes[WaitReplica][<< >>].pendingKeys[key] = 2

------------------------------------------------------------------------------
(* Properties of overlapping local clears *)

\* the log of the clear specification holds at most MaxClearOps messages
MaxClearOps == 4

\* The clear specification: one replica clears the root and sets its keys
\* and processes the log; the other replica sets and deletes the keys.
NextClears ==
    \/ Len(log) < MaxClearOps /\ LocalClear(WaitReplica, << >>)
    \/ \E key \in Keys :
          Len(log) < MaxClearOps
             /\ LocalSet(WaitReplica, << >>, key, <<WaitReplica, "Plain">>)
    \/ \E r \in Replicas \ {WaitReplica}, key \in Keys :
          Len(log) < MaxClearOps /\ LocalSet(r, << >>, key, <<r, "Plain">>)
    \/ \E r \in Replicas \ {WaitReplica}, key \in Keys :
          Len(log) < MaxClearOps /\ LocalDelete(r, << >>, key)
    \/ Process(WaitReplica)

SpecClears == Init /\ [][NextClears]_vars

\* the log indices of replica r's clear messages on the root
Clears(r) ==
    {i \in 1..Len(log) : /\ log[i].clientId = r
                         /\ log[i].contents.type = "clear"
                         /\ log[i].contents.path = sep}
LastClear(r) == CHOOSE i \in Clears(r) : \A j \in Clears(r) : j <= i

\* C33: the pending-clear slot of a node holds the client sequence number
\* of the replica's last local clear from the call until the echo of that
\* last clear is processed: the echo of an earlier clear leaves it, the echo
\* of the last one resets it to none, and every remote set or delete for the
\* node processed before that is ignored.
OverlappingClears ==
    LET r == WaitReplica
        root == nodes[r][<< >>]
    IN IF Clears(r) # {} /\ delivered[r] < LastClear(r)
       THEN /\ root.pendingClearClientSequenceNumber
                 = log[LastClear(r)].clientSequenceNumber
            /\ (HasNext(r) /\ ~NextLocal(r)
                   /\ NextMessage(r).contents.type \in {"set", "delete"})
               => /\ NextResult(r).tree = nodes[r]
                  /\ NextResult(r).events = << >>
                  /\ ~NextResult(r).threw
       ELSE root.pendingClearClientSequenceNumber = NoSeq

\* C33 witness: the replica cleared twice before any echo; the echo of the
\* first clear is processed, the slot holds the number of the second, and a
\* remote set sequenced between the two is next.
OverlappingClearsWitness ==
    /\ Clears(WaitReplica) = {1, 3}
    /\ clientSeq[WaitReplica] = 2
    /\ delivered[WaitReplica] = 1
    /\ log[2].clientId # WaitReplica
    /\ log[2].contents.type = "set"
    /\ nodes[WaitReplica][<< >>].pendingClearClientSequenceNumber = 2

------------------------------------------------------------------------------
(* Properties of the valueChanged event of set and delete *)

\* what a set or delete of the key on the node at p must emit: one
\* valueChanged with the key, the node's absolutePath and the value the key
\* held before (undefined when absent)
OneValueChanged(tree, p, key, local) ==
    <<valueChanged(key, tree[p].absolutePath, get(tree[p], key), local)>>

\* a set or delete that raised or was not applied: nothing stored, removed
\* or emitted
NotApplied(tree, p, result) ==
    /\ result.events = << >>
    /\ result.tree[p].storage = tree[p].storage

------------------------------------------------------------------------------
(* Properties of a remote clear *)

\* C35: processing a remote clear on a node with no unacknowledged local
\* clear removes from its storage every key that has no entry in pendingKeys,
\* leaves every stored key that has an entry with its value, leaves
\* pendingKeys and every other marker and node as they are, and emits
\* exactly one clear event.
RemoteClearKeepsPending ==
    \A r \in Replicas :
        (HasNext(r) /\ ~NextLocal(r) /\ NextMessage(r).contents.type = "clear"
            /\ NextTarget(r) # NoNode
            /\ nodes[r][NextTarget(r)].pendingClearClientSequenceNumber = NoSeq)
        => LET p == NextTarget(r)
               node == nodes[r][p]
               result == NextResult(r)
               after == result.tree[p]
           IN /\ ~result.threw
              /\ result.events = <<clearEvent(FALSE)>>
              /\ \A key \in DOMAIN node.storage \cup DOMAIN after.storage :
                    IF key \in DOMAIN node.pendingKeys
                    THEN key \in DOMAIN node.storage
                            => /\ key \in DOMAIN after.storage
                               /\ after.storage[key] = node.storage[key]
                    ELSE key \notin DOMAIN after.storage
              /\ Markers(result.tree) = Markers(nodes[r])
              /\ \A x \in DOMAIN nodes[r] \ {p} : result.tree[x] = nodes[r][x]

\* C35 witness: a replica that set a key and holds its marker is about to
\* process a remote clear of the node.
RemoteClearKeepsPendingWitness ==
    \E r \in Replicas :
        /\ HasNext(r) /\ ~NextLocal(r) /\ NextMessage(r).contents.type = "clear"
        /\ NextTarget(r) # NoNode
        /\ nodes[r][NextTarget(r)].pendingClearClientSequenceNumber = NoSeq
        /\ \E key \in DOMAIN nodes[r][NextTarget(r)].pendingKeys :
              /\ has(nodes[r][NextTarget(r)], key)
              /\ get(NextResult(r).tree[NextTarget(r)], key) = fromInMemory(r)

------------------------------------------------------------------------------
(* Properties of the values in storage *)

\* C36: every key present in a node's storage maps to a defined local value,
\* so that get and getSerializableStorage do not raise; and processing a
\* message adds an absent key to a node's storage only when the message is
\* a remote set of that key.
StorageDefined ==
    \A r \in Replicas :
        /\ \A p \in DOMAIN nodes[r] :
              /\ \A key \in DOMAIN nodes[r][p].storage :
                    /\ nodes[r][p].storage[key] # Undefined
                    /\ ~getThrows(nodes[r][p], key)
              /\ ~getSerializableStorageThrows(nodes[r][p])
        /\ HasNext(r)
           => \A p \in DOMAIN nodes[r] \cap DOMAIN NextResult(r).tree :
                 \A key \in DOMAIN NextResult(r).tree[p].storage
                               \ DOMAIN nodes[r][p].storage :
                    /\ ~NextLocal(r)
                    /\ NextMessage(r).contents.type = "set"
                    /\ NextMessage(r).contents.key = key
                    /\ NextTarget(r) = p

------------------------------------------------------------------------------
(* Properties of an acknowledged local write *)

\* the log of the subdirectory-race specification holds at most MaxRaceOps
\* messages
MaxRaceOps == 4

\* The subdirectory-race specification: one replica sets keys in /a and
\* processes the log; the other replica creates and deletes /a.
NextRace ==
    \/ \E r \in Replicas \ {WaitReplica}, subdirName \in Names :
          Len(log) < MaxRaceOps /\ LocalCreateSubDirectory(r, << >>, subdirName)
    \/ \E r \in Replicas \ {WaitReplica}, subdirName \in Names :
          Len(log) < MaxRaceOps /\ LocalDeleteSubDirectory(r, << >>, subdirName)
    \/ \E subdirName \in Names, key \in Keys :
          Len(log) < MaxRaceOps
             /\ LocalSet(WaitReplica, <<subdirName>>, key, <<WaitReplica, "Plain">>)
    \/ Process(WaitReplica)

SpecRace == Init /\ [][NextRace]_vars

\* the message touches the key at the path: a set or delete of the key or a
\* clear at the path, or a deleteSubDirectory of the node or of an ancestor
Touches(op, path, key) ==
    \/ op.type \in {"set", "delete", "act"} /\ op.path = path /\ op.key = key
    \/ op.type = "clear" /\ op.path = path
    \/ op.type = "deleteSubDirectory" /\ IsPrefix(Append(op.path, op.subdirName), path)

\* C37: once a replica has processed the echo of its local set(k, v) on the
\* node at a path, if no message sequenced after the set touches k, clears
\* the path or deletes the node or an ancestor, and the path resolves in the
\* replica's tree, the node at the path holds v at k, whatever was sequenced
\* before the set.
AcknowledgedWriteKept ==
    \A r \in Replicas : \A i \in 1..delivered[r] :
        LET op == log[i].contents
            subdir == getWorkingDirectory(nodes[r], op.path)
        IN (/\ log[i].clientId = r
            /\ op.type = "set"
            /\ \A j \in (i + 1)..Len(log) : ~Touches(log[j].contents, op.path, op.key)
            /\ subdir # NoNode)
           => /\ has(nodes[r][subdir], op.key)
              /\ get(nodes[r][subdir], op.key) = fromSerializable(op.value)

------------------------------------------------------------------------------
(* Properties of addressing a node by its path *)

\* C38: every node of the tree is the node that
\* SharedDirectory.getWorkingDirectory returns for the node's absolutePath,
\* whatever names without a separator its ancestors were created under, so
\* that no two nodes of a tree have the same absolutePath.
AddressableByPath ==
    \A r \in Replicas :
        /\ \A p \in DOMAIN nodes[r] :
              getWorkingDirectory(nodes[r], nodes[r][p].absolutePath) = p
        /\ \A p \in DOMAIN nodes[r] : \A q \in DOMAIN nodes[r] :
              nodes[r][p].absolutePath = nodes[r][q].absolutePath => p = q

------------------------------------------------------------------------------
(* Properties of SharedDirectory.populate *)

RECURSIVE populateCalls(_, _, _, _)
\* what populate's createSubDirectory calls hand to the submit function and
\* emit, for one data object and the children it names; populateStorage
\* writes to the storage only
populateCalls(tree, p, data, names) ==
    IF names = {} THEN [ops |-> << >>, events |-> << >>]
    ELSE LET subdirName == CHOOSE n \in names : TRUE
             call == createSubDirectory(tree, p, subdirName, NoSeq)
             child == data["subdirectories"][subdirName]
             q == Append(p, subdirName)
             childNames == IF "subdirectories" \in DOMAIN child
                           THEN DOMAIN child["subdirectories"] ELSE {}
             inner == populateCalls(call.tree, q, child, childNames)
             below == populateSubDir(call.tree, q, child, childNames)
             rest == populateCalls(below, p, data, names \ {subdirName})
         IN [ops |-> call.ops \o inner.ops \o rest.ops,
             events |-> call.events \o inner.events \o rest.events]

\* C39: populate, for the data object of any directory, hands no operation
\* to the submit function, records no pending marker on any node of the
\* restored tree and emits no event.
RestoreSilent ==
    \A r \in TreeReplicas :
        ~serialize(nodes[r]).threw
        => LET data == parseDataObject(serialize(nodes[r]).ret)
               names == IF "subdirectories" \in DOMAIN data
                        THEN DOMAIN data["subdirectories"] ELSE {}
               calls == populateCalls((<< >> :> SubDirectory(sep)), << >>, data, names)
               restored == populate(data)
           IN /\ calls.ops = << >>
              /\ calls.events = << >>
              /\ \A p \in DOMAIN restored : NoPending(restored[p])

====
